---- MODULE Spec2Model ----
(***************************************************************************)
(* Model of the medical-report core: line classifier, multi-strategy       *)
(* parser, name resolver, status classifier, confidence aggregation,       *)
(* hallucination guardrail and the pipeline orchestrator.                  *)
(*                                                                         *)
(* Text is a sequence of one-character strings.  Python's None is the      *)
(* empty tuple and a present value x is <<x>>, so an absent name differs   *)
(* from the empty string.  Numbers read from text are exact rationals      *)
(* [n, d] (d > 0); confidences the code rounds to two decimals are         *)
(* integers in hundredths.                                                 *)
(***************************************************************************)
EXTENDS Integers, Sequences, FiniteSets, TLC

\* ------------------------------------------------------------------ text

None == <<>>
Some(x) == <<x>>
Val(o) == o[1]

LowerLetters ==
    {"a","b","c","d","e","f","g","h","i","j","k","l","m",
     "n","o","p","q","r","s","t","u","v","w","x","y","z"}
UpperLetters ==
    {"A","B","C","D","E","F","G","H","I","J","K","L","M",
     "N","O","P","Q","R","S","T","U","V","W","X","Y","Z"}
Letters == LowerLetters \cup UpperLetters
Digits == {"0","1","2","3","4","5","6","7","8","9"}
\* \s, str.strip() and str.split(): the whitespace a line can hold
Whitespace == {" ", "\t"}
\* \w of the re module
WordChars == Letters \cup Digits \cup {"_"}

LowerMap ==
    ("A" :> "a") @@ ("B" :> "b") @@ ("C" :> "c") @@ ("D" :> "d") @@ ("E" :> "e") @@
    ("F" :> "f") @@ ("G" :> "g") @@ ("H" :> "h") @@ ("I" :> "i") @@ ("J" :> "j") @@
    ("K" :> "k") @@ ("L" :> "l") @@ ("M" :> "m") @@ ("N" :> "n") @@ ("O" :> "o") @@
    ("P" :> "p") @@ ("Q" :> "q") @@ ("R" :> "r") @@ ("S" :> "s") @@ ("T" :> "t") @@
    ("U" :> "u") @@ ("V" :> "v") @@ ("W" :> "w") @@ ("X" :> "x") @@ ("Y" :> "y") @@
    ("Z" :> "z")

DigitValue ==
    ("0" :> 0) @@ ("1" :> 1) @@ ("2" :> 2) @@ ("3" :> 3) @@ ("4" :> 4) @@
    ("5" :> 5) @@ ("6" :> 6) @@ ("7" :> 7) @@ ("8" :> 8) @@ ("9" :> 9)

\* str.lower()
Lower(s) == [i \in 1..Len(s) |-> IF s[i] \in UpperLetters THEN LowerMap[s[i]] ELSE s[i]]

RECURSIVE LStrip(_)
LStrip(s) == IF s # <<>> /\ Head(s) \in Whitespace THEN LStrip(Tail(s)) ELSE s

RECURSIVE RStrip(_)
RStrip(s) ==
    IF s # <<>> /\ s[Len(s)] \in Whitespace THEN RStrip(SubSeq(s, 1, Len(s) - 1)) ELSE s

\* str.strip()
Strip(s) == RStrip(LStrip(s))

\* w occurs in s starting at position i
At(w, s, i) ==
    /\ i + Len(w) - 1 <= Len(s)
    /\ \A j \in 1..Len(w) : s[i + j - 1] = w[j]

\* the `in` operator on strings
Contains(s, w) == \E i \in 1..(Len(s) - Len(w) + 1) : At(w, s, i)

RECURSIVE Join(_, _)
\* sep.join(parts)
Join(parts, sep) ==
    IF parts = <<>> THEN <<>>
    ELSE IF Len(parts) = 1 THEN parts[1]
    ELSE parts[1] \o sep \o Join(Tail(parts), sep)

RECURSIVE SplitFrom(_, _, _)
SplitFrom(s, i, cur) ==
    IF i > Len(s) THEN (IF cur = <<>> THEN <<>> ELSE <<cur>>)
    ELSE IF s[i] \in Whitespace
         THEN (IF cur = <<>> THEN <<>> ELSE <<cur>>) \o SplitFrom(s, i + 1, <<>>)
         ELSE SplitFrom(s, i + 1, Append(cur, s[i]))

\* str.split() with no argument
Split(s) == SplitFrom(s, 1, <<>>)

RECURSIVE CountIn(_, _)
\* sum(c in set for c in s)
CountIn(s, set) ==
    IF s = <<>> THEN 0 ELSE (IF Head(s) \in set THEN 1 ELSE 0) + CountIn(Tail(s), set)

\* ------------------------------------------------------- regular expressions
\* The subset of the re module the parser uses, with Python's backtracking
\* priorities: a greedy quantifier tries the longest run first, a lazy one the
\* shortest, an optional group is tried before it is skipped, alternatives are
\* tried left to right.  Groups record <<start, end>> (end exclusive);
\* <<0, 0>> is a group that took no part in the match.

Cls(set, min, max, lazy) == [k |-> "cls", set |-> set, min |-> min, max |-> max, lazy |-> lazy]
One(set) == Cls(set, 1, 1, FALSE)
Plus(set) == Cls(set, 1, -1, FALSE)
Star(set) == Cls(set, 0, -1, FALSE)
Maybe(set) == Cls(set, 0, 1, FALSE)
LazyPlus(set) == Cls(set, 1, -1, TRUE)
LazyStar(set) == Cls(set, 0, -1, TRUE)
Lit(w) == [i \in 1..Len(w) |-> One({w[i]})]
Bol == [k |-> "bol"]
Eol == [k |-> "eol"]
Open(g) == [k |-> "open", g |-> g]
Close(g) == [k |-> "close", g |-> g]
Opt(sub) == [k |-> "opt", sub |-> sub]
Alt(subs) == [k |-> "alt", subs |-> subs]

NoMatch == [ok |-> FALSE]

RECURSIVE RunLen(_, _, _, _, _)
\* how many characters from position i on are in set (at most max, when max >= 0)
RunLen(s, i, set, max, n) ==
    IF (max >= 0 /\ n >= max) \/ i + n > Len(s) \/ s[i + n] \notin set
    THEN n
    ELSE RunLen(s, i, set, max, n + 1)

\* \b between positions i - 1 and i
Boundary(s, i) ==
    LET before == i > 1 /\ i - 1 <= Len(s) /\ s[i - 1] \in WordChars
        after == i >= 1 /\ i <= Len(s) /\ s[i] \in WordChars
    IN  before # after

RECURSIVE Rx(_, _, _, _)
RECURSIVE RxCount(_, _, _, _, _, _, _)
RECURSIVE RxAlt(_, _, _, _, _, _)

\* match the atoms at position i of s; the result of the first match in priority order
Rx(atoms, s, i, caps) ==
    IF atoms = <<>> THEN [ok |-> TRUE, end |-> i, caps |-> caps]
    ELSE
      LET a == Head(atoms)
          rest == Tail(atoms)
      IN  CASE a.k = "cls" ->
                 LET run == RunLen(s, i, a.set, a.max, 0)
                 IN  IF run < a.min THEN NoMatch
                     ELSE IF a.lazy THEN RxCount(rest, s, i, caps, a.min, run, 1)
                     ELSE RxCount(rest, s, i, caps, run, a.min, -1)
            [] a.k = "bol" -> IF i = 1 THEN Rx(rest, s, i, caps) ELSE NoMatch
            [] a.k = "eol" -> IF i = Len(s) + 1 THEN Rx(rest, s, i, caps) ELSE NoMatch
            [] a.k = "open" -> Rx(rest, s, i, [caps EXCEPT ![a.g] = <<i, i>>])
            [] a.k = "close" -> Rx(rest, s, i, [caps EXCEPT ![a.g] = <<caps[a.g][1], i>>])
            [] a.k = "opt" ->
                 LET r == Rx(a.sub \o rest, s, i, caps)
                 IN  IF r.ok THEN r ELSE Rx(rest, s, i, caps)
            [] a.k = "alt" -> RxAlt(a.subs, 1, rest, s, i, caps)

\* try the counts from, from + step, ... up to last for a quantified class
RxCount(rest, s, i, caps, from, last, step) ==
    LET r == Rx(rest, s, i + from, caps)
    IN  IF r.ok THEN r
        ELSE IF from = last THEN NoMatch
        ELSE RxCount(rest, s, i, caps, from + step, last, step)

RxAlt(subs, j, rest, s, i, caps) ==
    IF j > Len(subs) THEN NoMatch
    ELSE LET r == Rx(subs[j] \o rest, s, i, caps)
         IN  IF r.ok THEN r ELSE RxAlt(subs, j + 1, rest, s, i, caps)

NoGroups(n) == [g \in 1..n |-> <<0, 0>>]

RECURSIVE SearchFrom(_, _, _, _)
SearchFrom(atoms, s, i, ngroups) ==
    IF i > Len(s) + 1 THEN NoMatch
    ELSE LET r == Rx(atoms, s, i, NoGroups(ngroups))
         IN  IF r.ok THEN [ok |-> TRUE, start |-> i, end |-> r.end, caps |-> r.caps]
             ELSE SearchFrom(atoms, s, i + 1, ngroups)

\* re.search(pattern, s)
Search(atoms, s, ngroups) == SearchFrom(atoms, s, 1, ngroups)

\* match.group(g): None for a group that did not take part
Group(m, s, g) ==
    IF m.caps[g] = <<0, 0>> THEN None
    ELSE Some(SubSeq(s, m.caps[g][1], m.caps[g][2] - 1))

\* ------------------------------------------------------------- numbers

\* exact rationals [n, d] with d > 0
Q(n, d) == [n |-> n, d |-> d]
QLt(x, y) == x.n * y.d < y.n * x.d
QLe(x, y) == x.n * y.d <= y.n * x.d
QEq(x, y) == x.n * y.d = y.n * x.d
QSub(x, y) == Q(x.n * y.d - y.n * x.d, x.d * y.d)
QAbs(x) == Q(IF x.n < 0 THEN -x.n ELSE x.n, x.d)
QMin(x, y) == IF QLe(x, y) THEN x ELSE y

\* round(n / d) to the nearest integer, an exact tie going to the even one.
\* (The code rounds binary floats, whose representation error can move a
\* value that is an exact tie here by one hundredth.)
RoundDiv(n, d) ==
    LET q == n \div d
        r == n % d
    IN  IF 2 * r < d THEN q
        ELSE IF 2 * r > d THEN q + 1
        ELSE IF q % 2 = 0 THEN q ELSE q + 1

RECURSIVE DigitsValue(_, _)
DigitsValue(s, acc) ==
    IF s = <<>> THEN acc ELSE DigitsValue(Tail(s), 10 * acc + DigitValue[Head(s)])

RECURSIVE Pow10(_)
Pow10(k) == IF k = 0 THEN 1 ELSE 10 * Pow10(k - 1)

Remove(s, c) == SelectSeq(s, LAMBDA x : x # c)

\* float(s) for a string of digits and dots: None stands for ValueError
Float(s) ==
    LET dots == CountIn(s, {"."})
        digs == Remove(s, ".")
        dot == CHOOSE i \in 1..Len(s) : s[i] = "."
    IN  IF s = <<>> \/ digs = <<>> \/ dots > 1 \/ \E i \in 1..Len(s) : s[i] \notin Digits \cup {"."}
        THEN None
        ELSE IF dots = 0 THEN Some(Q(DigitsValue(s, 0), 1))
        ELSE Some(Q(DigitsValue(digs, 0), Pow10(Len(s) - dot)))

\* ------------------------------------------------------------- parser data

non_test_keywords ==
    <<
    <<"a","d","d","r","e","s","s">>, <<"p","h","o","n","e">>, <<"c","o","n","t","a","c","t">>,
    <<"m","o","b","i","l","e">>, <<"c","l","i","n","i","c">>, <<"d","o","c","t","o","r">>,
    <<"d","r",".">>, <<"p","a","t","i","e","n","t">>, <<"n","a","m","e">>, <<"a","g","e">>,
    <<"s","e","x">>, <<"g","e","n","d","e","r">>, <<"i","d">>, <<"i","n","v","o","i","c","e">>,
    <<"b","i","l","l">>, <<"r","e","p","o","r","t">>, <<"e","m","a","i","l">>, <<"d","o","b">>,
    <<"l","a","b">>, <<"r","e","g","i","s","t","r","a","t","i","o","n">>,
    <<"r","e","g","n","o">>, <<"d","a","t","e">>, <<"p","a","g","e">>,
    <<"g","e","n","e","r","a","t","e","d">>, <<"p","r","i","n","t","e","d">>,
    <<"c","o","l","l","e","c","t","e","d">>, <<"r","e","p","o","r","t","e","d">>,
    <<"r","e","g","i","s","t","e","r","e","d">>, <<"s","a","m","p","l","e">>,
    <<"s","p","e","c","i","m","e","n">>, <<"p","i","d">>, <<"v","i","s","i","t">>,
    <<"r","e","f"," ","n","o">>, <<"n","u","m","b","e","r">>,
    <<"h","o","s","p","i","t","a","l">>, <<"c","e","n","t","e","r">>,
    <<"c","e","n","t","r","e">>, <<"h","e","a","l","t","h","c","a","r","e">>,
    <<"d","i","a","g","n","o","s","t","i","c">>, <<"p","a","t","h","o","l","o","g","y">>,
    <<"t","i","m","e">>, <<"j","a","n">>, <<"f","e","b">>, <<"m","a","r">>, <<"a","p","r">>,
    <<"m","a","y">>, <<"j","u","n">>, <<"j","u","l">>, <<"a","u","g">>, <<"s","e","p">>,
    <<"o","c","t">>, <<"n","o","v">>, <<"d","e","c">>, <<"m","o","n","d","a","y">>,
    <<"t","u","e","s","d","a","y">>, <<"w","e","d","n","e","s","d","a","y">>,
    <<"t","h","u","r","s","d","a","y">>, <<"f","r","i","d","a","y">>,
    <<"s","a","t","u","r","d","a","y">>, <<"s","u","n","d","a","y">>, <<"r","o","a","d">>,
    <<"s","t","r","e","e","t">>, <<"a","v","e","n","u","e">>, <<"c","i","t","y">>,
    <<"s","t","a","t","e">>, <<"p","i","n">>, <<"z","i","p">>, <<"c","o","m","p","l","e","x">>,
    <<"b","u","n","g","a","l","o","w">>, <<"f","l","o","o","r">>,
    <<"b","u","i","l","d","i","n","g">>, <<"d","e","f","i","c","i","e","n","c","y">>,
    <<"d","e","f","i","c","i","e","n","c","i","e","s">>,
    <<"i","n","s","t","r","u","m","e","n","t">>, <<"m","e","t","h","o","d">>,
    <<"m","e","t","h","o","d","o","l","o","g","y">>,
    <<"t","e","c","h","n","i","c","i","a","n">>,
    <<"p","a","t","h","o","l","o","g","i","s","t">>, <<"s","i","g","n","a","t","u","r","e">>,
    <<"v","e","r","i","f","i","e","d">>, <<"a","p","p","r","o","v","e","d">>
    >>

valid_units ==
    <<
    <<"g","/","d","l">>, <<"g","/","l">>, <<"m","g","/","d","l">>, <<"m","g","/","l">>,
    <<"u","g","/","d","l">>, <<"n","g","/","d","l">>, <<"p","g","/","m","l">>,
    <<"n","g","/","m","l">>, <<"m","m","o","l","/","l">>, <<"u","m","o","l","/","l">>,
    <<"m","e","q","/","l">>, <<"i","u","/","l">>, <<"u","/","l">>, <<"i","u","/","m","l">>,
    <<"m","i","u","/","m","l">>, <<"%">>, <<"m","m","/","h","r">>, <<"s","e","c">>,
    <<"s","e","c","o","n","d","s">>, <<"m","i","n","u","t","e","s">>, <<"f","l">>, <<"p","g">>,
    <<"/","u","l">>, <<"/","c","u","m","m">>, <<"/","m","m","3">>,
    <<"c","e","l","l","s","/","u","l">>, <<"c","e","l","l","s","/","c","u","m","m">>,
    <<"m","i","l","l","/","c","u","m","m">>, <<"m","i","l","l","i","o","n","/","u","l">>,
    <<"m","i","l","l","i","o","n","/","c","u","m","m">>, <<"l","a","c","/","c","u","m","m">>,
    <<"l","a","k","h","/","c","u","m","m">>, <<"t","h","o","u","/","u","l">>,
    <<"t","h","o","u","s","a","n","d","/","u","l">>, <<"k","/","u","l">>,
    <<"x","1","0","^","3","/","u","l">>, <<"x","1","0","^","6","/","u","l">>,
    <<"x","1","0","^","9","/","l">>, <<"r","a","t","i","o">>, <<"i","n","d","e","x">>,
    <<"s","c","o","r","e">>
    >>

known_test_patterns ==
    <<
      <<
        [segs |-> <<<<"h","e","m","o","g","l","o","b","i","n">>>>, wb |-> FALSE],
        [segs |-> <<<<"h","a","e","m","o","g","l","o","b","i","n">>>>, wb |-> FALSE],
        [segs |-> <<<<"h","g","b">>>>, wb |-> FALSE], [segs |-> <<<<"h","b">>>>, wb |-> TRUE]
      >>,
      <<
        [segs |-> <<<<"w","b","c">>>>, wb |-> FALSE],
        [segs |-> <<<<"w","h","i","t","e">>, <<"b","l","o","o","d">>, <<"c","e","l","l">>>>, wb |-> FALSE],
        [segs |-> <<<<"l","e","u","k","o","c","y","t","e">>>>, wb |-> FALSE],
        [segs |-> <<<<"l","e","u","c","o","c","y","t","e">>>>, wb |-> FALSE]
      >>,
      <<
        [segs |-> <<<<"r","b","c">>>>, wb |-> FALSE],
        [segs |-> <<<<"r","e","d">>, <<"b","l","o","o","d">>, <<"c","e","l","l">>>>, wb |-> FALSE],
        [segs |-> <<<<"e","r","y","t","h","r","o","c","y","t","e">>>>, wb |-> FALSE]
      >>,
      <<
        [segs |-> <<<<"p","l","a","t","e","l","e","t">>>>, wb |-> FALSE],
        [segs |-> <<<<"p","l","t">>>>, wb |-> FALSE],
        [segs |-> <<<<"t","h","r","o","m","b","o","c","y","t","e">>>>, wb |-> FALSE]
      >>,
      <<
        [segs |-> <<<<"h","e","m","a","t","o","c","r","i","t">>>>, wb |-> FALSE],
        [segs |-> <<<<"h","a","e","m","a","t","o","c","r","i","t">>>>, wb |-> FALSE],
        [segs |-> <<<<"h","c","t">>>>, wb |-> FALSE], [segs |-> <<<<"p","c","v">>>>, wb |-> FALSE]
      >>,
      <<
        [segs |-> <<<<"m","c","v">>>>, wb |-> FALSE], [segs |-> <<<<"m","c","h">>>>, wb |-> FALSE],
        [segs |-> <<<<"m","c","h","c">>>>, wb |-> FALSE], [segs |-> <<<<"r","d","w">>>>, wb |-> FALSE],
        [segs |-> <<<<"m","p","v">>>>, wb |-> FALSE], [segs |-> <<<<"p","d","w">>>>, wb |-> FALSE],
        [segs |-> <<<<"p","c","t">>>>, wb |-> FALSE], [segs |-> <<<<"p","-","l","c","r">>>>, wb |-> FALSE],
        [segs |-> <<<<"p","l","c","r">>>>, wb |-> FALSE]
      >>,
      <<
        [segs |-> <<<<"n","e","u","t","r","o","p","h","i","l">>>>, wb |-> FALSE],
        [segs |-> <<<<"l","y","m","p","h","o","c","y","t","e">>>>, wb |-> FALSE],
        [segs |-> <<<<"m","o","n","o","c","y","t","e">>>>, wb |-> FALSE],
        [segs |-> <<<<"e","o","s","i","n","o","p","h","i","l">>>>, wb |-> FALSE],
        [segs |-> <<<<"b","a","s","o","p","h","i","l">>>>, wb |-> FALSE]
      >>,
      <<
        [segs |-> <<<<"g","l","u","c","o","s","e">>>>, wb |-> FALSE],
        [segs |-> <<<<"s","u","g","a","r">>>>, wb |-> FALSE], [segs |-> <<<<"f","b","s">>>>, wb |-> FALSE],
        [segs |-> <<<<"f","a","s","t","i","n","g">>>>, wb |-> FALSE],
        [segs |-> <<<<"p","p","b","s">>>>, wb |-> FALSE],
        [segs |-> <<<<"r","a","n","d","o","m">>>>, wb |-> FALSE]
      >>,
      <<
        [segs |-> <<<<"c","h","o","l","e","s","t","e","r","o","l">>>>, wb |-> FALSE],
        [segs |-> <<<<"t","r","i","g","l","y","c","e","r","i","d","e">>>>, wb |-> FALSE],
        [segs |-> <<<<"l","d","l">>>>, wb |-> FALSE], [segs |-> <<<<"h","d","l">>>>, wb |-> FALSE],
        [segs |-> <<<<"v","l","d","l">>>>, wb |-> FALSE]
      >>,
      <<
        [segs |-> <<<<"c","r","e","a","t","i","n","i","n","e">>>>, wb |-> FALSE],
        [segs |-> <<<<"u","r","e","a">>>>, wb |-> FALSE], [segs |-> <<<<"b","u","n">>>>, wb |-> FALSE],
        [segs |-> <<<<"b","l","o","o","d">>, <<"u","r","e","a">>>>, wb |-> FALSE]
      >>,
      <<
        [segs |-> <<<<"b","i","l","i","r","u","b","i","n">>>>, wb |-> FALSE],
        [segs |-> <<<<"s","g","p","t">>>>, wb |-> FALSE], [segs |-> <<<<"s","g","o","t">>>>, wb |-> FALSE],
        [segs |-> <<<<"a","l","t">>>>, wb |-> FALSE], [segs |-> <<<<"a","s","t">>>>, wb |-> FALSE],
        [segs |-> <<<<"a","l","p">>>>, wb |-> FALSE],
        [segs |-> <<<<"a","l","k","a","l","i","n","e">>, <<"p","h","o","s","p","h","a","t","a","s","e">>>>, wb |-> FALSE]
      >>,
      <<
        [segs |-> <<<<"p","r","o","t","e","i","n">>>>, wb |-> FALSE],
        [segs |-> <<<<"a","l","b","u","m","i","n">>>>, wb |-> FALSE],
        [segs |-> <<<<"g","l","o","b","u","l","i","n">>>>, wb |-> FALSE]
      >>,
      <<
        [segs |-> <<<<"s","o","d","i","u","m">>>>, wb |-> FALSE],
        [segs |-> <<<<"p","o","t","a","s","s","i","u","m">>>>, wb |-> FALSE],
        [segs |-> <<<<"c","h","l","o","r","i","d","e">>>>, wb |-> FALSE],
        [segs |-> <<<<"c","a","l","c","i","u","m">>>>, wb |-> FALSE],
        [segs |-> <<<<"m","a","g","n","e","s","i","u","m">>>>, wb |-> FALSE],
        [segs |-> <<<<"p","h","o","s","p","h","o","r","u","s">>>>, wb |-> FALSE]
      >>,
      <<
        [segs |-> <<<<"t","s","h">>>>, wb |-> FALSE], [segs |-> <<<<"t","3">>>>, wb |-> FALSE],
        [segs |-> <<<<"t","4">>>>, wb |-> FALSE], [segs |-> <<<<"t","h","y","r","o","i","d">>>>, wb |-> FALSE]
      >>,
      <<
        [segs |-> <<<<"u","r","i","c">>, <<"a","c","i","d">>>>, wb |-> FALSE],
        [segs |-> <<<<"u","r","a","t","e">>>>, wb |-> FALSE]
      >>,
      <<
        [segs |-> <<<<"i","r","o","n">>>>, wb |-> FALSE],
        [segs |-> <<<<"f","e","r","r","i","t","i","n">>>>, wb |-> FALSE],
        [segs |-> <<<<"t","i","b","c">>>>, wb |-> FALSE]
      >>,
      <<
        [segs |-> <<<<"v","i","t","a","m","i","n">>>>, wb |-> FALSE],
        [segs |-> <<<<"f","o","l","a","t","e">>>>, wb |-> FALSE],
        [segs |-> <<<<"f","o","l","i","c">>>>, wb |-> FALSE]
      >>,
      <<
        [segs |-> <<<<"h","b","a","1","c">>>>, wb |-> FALSE],
        [segs |-> <<<<"g","l","y","c","a","t","e","d">>>>, wb |-> FALSE],
        [segs |-> <<<<"g","l","y","c","o","s","y","l","a","t","e","d">>>>, wb |-> FALSE]
      >>,
      <<
        [segs |-> <<<<"e","s","r">>>>, wb |-> FALSE],
        [segs |-> <<<<"s","e","d">>, <<"r","a","t","e">>>>, wb |-> FALSE],
        [segs |-> <<<<"s","e","d","i","m","e","n","t","a","t","i","o","n">>>>, wb |-> FALSE]
      >>,
      <<
        [segs |-> <<<<"p","s","a">>>>, wb |-> FALSE],
        [segs |-> <<<<"p","r","o","s","t","a","t","e">>>>, wb |-> FALSE]
      >>,
      <<
        [segs |-> <<<<"c","k">>>>, wb |-> FALSE], [segs |-> <<<<"c","p","k">>>>, wb |-> FALSE],
        [segs |-> <<<<"l","d","h">>>>, wb |-> FALSE],
        [segs |-> <<<<"t","r","o","p","o","n","i","n">>>>, wb |-> FALSE]
      >>,
      <<
        [segs |-> <<<<"a","m","y","l","a","s","e">>>>, wb |-> FALSE],
        [segs |-> <<<<"l","i","p","a","s","e">>>>, wb |-> FALSE]
      >>,
      <<
        [segs |-> <<<<"g","g","t">>>>, wb |-> FALSE], [segs |-> <<<<"g","a","m","m","a">>>>, wb |-> FALSE]
      >>,
      <<
        [segs |-> <<<<"i","n","r">>>>, wb |-> FALSE], [segs |-> <<<<"p","t">>>>, wb |-> FALSE],
        [segs |-> <<<<"p","t","t">>>>, wb |-> FALSE], [segs |-> <<<<"a","p","t","t">>>>, wb |-> FALSE],
        [segs |-> <<<<"p","r","o","t","h","r","o","m","b","i","n">>>>, wb |-> FALSE]
      >>,
      <<
        [segs |-> <<<<"t","o","t","a","l">>, <<"c","o","u","n","t">>>>, wb |-> FALSE],
        [segs |-> <<<<"d","i","f","f","e","r","e","n","t","i","a","l">>, <<"c","o","u","n","t">>>>, wb |-> FALSE],
        [segs |-> <<<<"d","c">>>>, wb |-> TRUE], [segs |-> <<<<"t","c">>>>, wb |-> TRUE]
      >>
    >>

\* ------------------------------------------------------------- line classifier

MinLineLen == 5
MaxLineLen == 200

\* re.search(rf'\b{re.escape(kw)}\b', s)
HasWord(kw, s) ==
    \E i \in 1..(Len(s) - Len(kw) + 1) :
        At(kw, s, i) /\ Boundary(s, i) /\ Boundary(s, i + Len(kw))

RECURSIVE SegsEnd(_, _, _)
\* the literal segments of one alternative, \s* between them, matched at
\* position i of s: the position after the match, 0 for no match.  Every
\* segment starts with a non-blank character, so the only run of blanks \s*
\* can take before it is the whole run.
SegsEnd(segs, s, i) ==
    IF ~At(Head(segs), s, i) THEN 0
    ELSE LET e == i + Len(Head(segs))
         IN  IF Len(segs) = 1 THEN e
             ELSE SegsEnd(Tail(segs), s, e + RunLen(s, e, Whitespace, -1, 0))

\* re.search(pattern, s) for one of known_test_patterns
MatchesKnownPattern(pattern, s) ==
    \E a \in 1..Len(pattern) : \E i \in 1..Len(s) :
        LET e == SegsEnd(pattern[a].segs, s, i)
        IN  e # 0 /\ (pattern[a].wb => Boundary(s, e))

MatchesAnyKnownPattern(s) ==
    \E p \in 1..Len(known_test_patterns) : MatchesKnownPattern(known_test_patterns[p], s)

\* r'[a-zA-Z]+\s+[\d.]+'
ShapePattern == <<Plus(Letters), Plus(Whitespace), Plus(Digits \cup {"."})>>

MaxDigitRatioNum == 6
MaxDigitRatioDen == 10

_is_likely_test_line(line) ==
    LET lower == Strip(Lower(line))
    IN  IF Len(lower) < MinLineLen \/ Len(lower) > MaxLineLen THEN FALSE
        \* digit_ratio > 0.6 (0 for the empty line)
        ELSE IF line # <<>> /\ CountIn(line, Digits) * MaxDigitRatioDen > MaxDigitRatioNum * Len(line)
             THEN FALSE
        ELSE IF \E k \in 1..Len(non_test_keywords) : HasWord(non_test_keywords[k], lower)
             THEN FALSE
        ELSE IF MatchesAnyKnownPattern(lower) THEN TRUE
        ELSE IF \E u \in 1..Len(valid_units) : Contains(lower, Lower(valid_units[u])) THEN TRUE
        ELSE Search(ShapePattern, line, 0).ok

\* ------------------------------------------------------------- parser

ParsedTest(name, value, unit, status, raw_line, confidence) ==
    [name |-> name, value |-> value, unit |-> unit, status |-> status,
     raw_line |-> raw_line, confidence |-> confidence]

BaseConfidence == 50
NameBonus == 20
UnitBonus == 15
ValueBonus == 10
StatusBonus == 5
MaxPlausibleValue == 100000

\* min(a, b)
PyMin(a, b) == IF a < b THEN a ELSE b

\* a variant that gives the bonus of the value on the ends of the range too
_calculate_confidence_inclusive(test_name, value, unit, status) ==
    LET c1 == IF MatchesAnyKnownPattern(Lower(test_name)) THEN NameBonus ELSE 0
        c2 == IF unit # <<>> /\ \E u \in 1..Len(valid_units) :
                                   Contains(Lower(unit), Lower(valid_units[u]))
              THEN UnitBonus ELSE 0
        c3 == IF value # None /\ Val(value).n >= 0
                 /\ Val(value).n <= MaxPlausibleValue * Val(value).d
              THEN ValueBonus ELSE 0
        c4 == IF status # None /\ Val(status) # <<>> THEN StatusBonus ELSE 0
    IN  PyMin(BaseConfidence + c1 + c2 + c3 + c4, 100)

\* hundredths; value is Some(rational) or None, status Some(word) or None
_calculate_confidence(test_name, value, unit, status) ==
    LET c1 == IF MatchesAnyKnownPattern(Lower(test_name)) THEN NameBonus ELSE 0
        c2 == IF unit # <<>> /\ \E u \in 1..Len(valid_units) :
                                   Contains(Lower(unit), Lower(valid_units[u]))
              THEN UnitBonus ELSE 0
        c3 == IF value # None /\ Val(value).n > 0
                 /\ Val(value).n < MaxPlausibleValue * Val(value).d
              THEN ValueBonus ELSE 0
        c4 == IF status # None /\ Val(status) # <<>> THEN StatusBonus ELSE 0
    IN  PyMin(BaseConfidence + c1 + c2 + c3 + c4, 100)

\* the en dash U+2013, one character of the text
EnDash == "u2013"

NameStart == Letters
NameChars == Letters \cup Whitespace \cup {"(", ")", "-"}
ColonNameChars == Letters \cup Whitespace \cup {"(", ")"}
ValueChars == Digits \cup {".", ","}
UnitChars == Letters \cup Digits \cup Whitespace \cup {"%", "/", "-", "^"}

StatusWords ==
    << <<"L","o","w">>, <<"H","i","g","h">>, <<"N","o","r","m","a","l">>,
       <<"l","o","w">>, <<"h","i","g","h">>, <<"n","o","r","m","a","l">>,
       <<"L","O","W">>, <<"H","I","G","H">>, <<"N","O","R","M","A","L">> >>

\* ^([A-Za-z][A-Za-z\s\(\)\-]+?)\s+([\d.,]+)\s*([a-zA-Z%/\-\s\^0-9]*?)
\*  (?:\s*[\(\[]?(Low|High|Normal|low|high|normal|LOW|HIGH|NORMAL)[\)\]]?)?$
StandardPattern ==
    << Bol, Open(1), One(NameStart), LazyPlus(NameChars), Close(1),
       Plus(Whitespace), Open(2), Plus(ValueChars), Close(2),
       Star(Whitespace), Open(3), LazyStar(UnitChars), Close(3),
       Opt(<< Star(Whitespace), Maybe({"(", "["}), Open(4),
              Alt([j \in 1..Len(StatusWords) |-> Lit(StatusWords[j])]), Close(4),
              Maybe({")", "]"}) >>),
       Eol >>

\* ^([A-Za-z][A-Za-z\s\(\)\-]+?)\s+([\d.,]+)\s+[\d.,]+\s*[-\u2013]\s*[\d.,]+\s+([a-zA-Z%/\-\s\^0-9]+)$
ReferencePattern ==
    << Bol, Open(1), One(NameStart), LazyPlus(NameChars), Close(1),
       Plus(Whitespace), Open(2), Plus(ValueChars), Close(2),
       Plus(Whitespace), Plus(ValueChars), Star(Whitespace), One({"-", EnDash}),
       Star(Whitespace), Plus(ValueChars), Plus(Whitespace),
       Open(3), Plus(UnitChars), Close(3), Eol >>

\* ^([A-Za-z][A-Za-z\s\(\)]+?):\s*([\d.,]+)\s*([a-zA-Z%/\-\s\^0-9]*)$
ColonPattern ==
    << Bol, Open(1), One(NameStart), LazyPlus(ColonNameChars), Close(1), One({":"}),
       Star(Whitespace), Open(2), Plus(ValueChars), Close(2),
       Star(Whitespace), Open(3), Star(UnitChars), Close(3), Eol >>

\* \s*[\d.-]+\s*-?\s*[\d.]*$
TrailingRangePattern ==
    << Star(Whitespace), Plus(Digits \cup {".", "-"}), Star(Whitespace), Maybe({"-"}),
       Star(Whitespace), Star(Digits \cup {"."}), Eol >>

RECURSIVE ReplaceCommas(_)
\* re.sub(r',\s*', ' ', line)
ReplaceCommas(s) ==
    IF s = <<>> THEN <<>>
    ELSE IF Head(s) = ","
         THEN LET t == Tail(s)
                  k == RunLen(t, 1, Whitespace, -1, 0)
              IN  <<" ">> \o ReplaceCommas(SubSeq(t, k + 1, Len(t)))
         ELSE <<Head(s)>> \o ReplaceCommas(Tail(s))

\* re.sub(r'\s*[\d.-]+\s*-?\s*[\d.]*$', '', unit).strip(): the pattern ends at
\* the end of the text, so the leftmost match is the only one
StripTrailingRange(unit) ==
    LET m == Search(TrailingRangePattern, unit, 0)
    IN  Strip(IF m.ok THEN SubSeq(unit, 1, m.start - 1) ELSE unit)

\* value_str = match.group(2).strip().replace(',', '')
ValueString(m, s) == Remove(Strip(Val(Group(m, s, 2))), ",")

\* match.group(k).strip() if match.group(k) else ""
GroupText(m, s, k) ==
    LET g == Group(m, s, k)
    IN  IF g # None /\ Val(g) # <<>> THEN Strip(Val(g)) ELSE <<>>

\* what a grammar returns for the fields it matched: None when float() raised
\* ValueError, else the ParsedTest with its confidence
MatchedTest(test_name, value, unit, status, line) ==
    IF value = None THEN None
    ELSE Some(ParsedTest(Some(test_name), value, Some(unit), status, line,
                         _calculate_confidence(test_name, value, unit, status)))

\* _try_parse_standard_format from its match m on clean_line
StandardMatch(line, clean_line, m) ==
    IF ~m.ok THEN None
    ELSE LET g4 == Group(m, clean_line, 4)
         IN  MatchedTest(Strip(Val(Group(m, clean_line, 1))),
                         Float(ValueString(m, clean_line)),
                         StripTrailingRange(GroupText(m, clean_line, 3)),
                         IF g4 # None /\ Val(g4) # <<>> THEN Some(Lower(Val(g4))) ELSE None,
                         line)

\* Parse: Test Name Value Unit (Status); None when the grammar fails
_try_parse_standard_format(line) ==
    LET clean_line == ReplaceCommas(line)
    IN  StandardMatch(line, clean_line, Search(StandardPattern, clean_line, 4))

\* _try_parse_with_reference from its match m on clean_line
ReferenceMatch(line, clean_line, m) ==
    IF ~m.ok THEN None
    ELSE MatchedTest(Strip(Val(Group(m, clean_line, 1))),
                     Float(ValueString(m, clean_line)),
                     Strip(Val(Group(m, clean_line, 3))), None, line)

\* Parse: Test Name Value RefLow - RefHigh Unit
_try_parse_with_reference(line) ==
    LET clean_line == ReplaceCommas(line)
    IN  ReferenceMatch(line, clean_line, Search(ReferencePattern, clean_line, 3))

\* _try_parse_colon_format from its match m on line
ColonMatch(line, m) ==
    IF ~m.ok THEN None
    ELSE MatchedTest(Strip(Val(Group(m, line, 1))), Float(ValueString(m, line)),
                     GroupText(m, line, 3), None, line)

\* Parse: Test Name: Value Unit
_try_parse_colon_format(line) == ColonMatch(line, Search(ColonPattern, line, 3))

Unparsed(line) == ParsedTest(None, None, None, None, line, 0)

Parsed(result) == result # None /\ Val(result).value # None

\* the loop over the parsers in parse_line: r1, r2, r3 are what the parsers
\* named in order return, and the first with a value is the result
FirstParsed(line, order, r1, r2, r3) ==
    IF Parsed(r1) THEN [tried |-> SubSeq(order, 1, 1), result |-> Val(r1)]
    ELSE IF Parsed(r2) THEN [tried |-> SubSeq(order, 1, 2), result |-> Val(r2)]
    ELSE IF Parsed(r3) THEN [tried |-> order, result |-> Val(r3)]
    ELSE [tried |-> order, result |-> Unparsed(line)]

\* a variant of parse_line that tries the grammar with a reference range first
parse_line_steps_reference_first(raw) ==
    LET line == Strip(raw)
    IN  IF ~_is_likely_test_line(line) THEN [tried |-> <<>>, result |-> Unparsed(line)]
        ELSE FirstParsed(line, <<"reference", "standard", "colon">>,
                         _try_parse_with_reference(line),
                         _try_parse_standard_format(line),
                         _try_parse_colon_format(line))

\* parse_line with the grammars it tried on the way, in the order tried
parse_line_steps(raw) ==
    LET line == Strip(raw)
    IN  IF ~_is_likely_test_line(line) THEN [tried |-> <<>>, result |-> Unparsed(line)]
        ELSE FirstParsed(line, <<"standard", "reference", "colon">>,
                         _try_parse_standard_format(line),
                         _try_parse_with_reference(line),
                         _try_parse_colon_format(line))

parse_line(raw) == parse_line_steps(raw).result
\* ------------------------------------------------------------- state

VARIABLES
    reference_ranges,       \* ConfigLoader._reference_ranges['blood_tests'], in file order
    workers,                \* the threads inside ConfigLoader, each with its position and locals
    call,                   \* a call of one operation: its arguments and what it returned
    pc,                     \* where process_text stands
    text,                   \* its argument, as the lines of the text
    extraction_result,      \* the locals of process_text and _process_tests
    valid_parsed_tests,
    normalization_result,
    normalized_tests,
    guardrail_result,
    result,                 \* what process_text returned
    ran                     \* the stages that ran, in order

\* ------------------------------------------------------------- reference catalog

\* dict[k] = v on a dict kept as a sequence of <<key, value>> in insertion order
DictSet(d, k, v) ==
    IF \E i \in 1..Len(d) : d[i][1] = k
    THEN [i \in 1..Len(d) |-> IF d[i][1] = k THEN <<k, v>> ELSE d[i]]
    ELSE Append(d, <<k, v>>)

DictHas(d, k) == \E i \in 1..Len(d) : d[i][1] = k
DictGet(d, k) == d[CHOOSE i \in 1..Len(d) : d[i][1] = k][2]
DictKeys(d) == [i \in 1..Len(d) |-> d[i][1]]

\* ranges['blood_tests'].get(test_name)
get_test_by_name(test_name) ==
    IF \E i \in 1..Len(reference_ranges) : reference_ranges[i].name = test_name
    THEN Some(reference_ranges[CHOOSE i \in 1..Len(reference_ranges) :
                                   reference_ranges[i].name = test_name])
    ELSE None

\* list(ranges['blood_tests'].keys())
get_all_test_names == [i \in 1..Len(reference_ranges) |-> reference_ranges[i].name]

RECURSIVE AddAliases(_, _, _)
AddAliases(alias_map, aliases, test_name) ==
    IF aliases = <<>> THEN alias_map
    ELSE AddAliases(DictSet(alias_map, Lower(Head(aliases)), test_name), Tail(aliases), test_name)

RECURSIVE AliasesFrom(_, _)
AliasesFrom(i, alias_map) ==
    IF i > Len(reference_ranges) THEN alias_map
    ELSE AliasesFrom(i + 1, AddAliases(alias_map, reference_ranges[i].aliases,
                                       reference_ranges[i].name))

\* lower-cased alias -> canonical name, a later entry replacing an earlier one
get_all_aliases == AliasesFrom(1, <<>>)

\* ------------------------------------------------------------- fuzzy matching
\* rapidfuzz: fuzz.token_set_ratio and process.extractOne as the normalizer
\* calls them (no processor, no score cutoff).  Scores are exact rationals on
\* the 0..100 scale.

AsciiOrder ==
    << "\t", " ", "%", "(", ")", ",", "-", ".", "/",
       "0", "1", "2", "3", "4", "5", "6", "7", "8", "9", ":",
       "A", "B", "C", "D", "E", "F", "G", "H", "I", "J", "K", "L", "M",
       "N", "O", "P", "Q", "R", "S", "T", "U", "V", "W", "X", "Y", "Z",
       "[", "]", "^", "_",
       "a", "b", "c", "d", "e", "f", "g", "h", "i", "j", "k", "l", "m",
       "n", "o", "p", "q", "r", "s", "t", "u", "v", "w", "x", "y", "z", EnDash >>

Rank(c) == CHOOSE i \in 1..Len(AsciiOrder) : AsciiOrder[i] = c

RECURSIVE StrLess(_, _)
\* a < b on strings
StrLess(a, b) ==
    IF b = <<>> THEN FALSE
    ELSE IF a = <<>> THEN TRUE
    ELSE IF Head(a) = Head(b) THEN StrLess(Tail(a), Tail(b))
    ELSE Rank(Head(a)) < Rank(Head(b))

RECURSIVE Sorted(_)
\* sorted(set of strings)
Sorted(S) ==
    IF S = {} THEN <<>>
    ELSE LET m == CHOOSE x \in S : \A y \in S : x = y \/ StrLess(x, y)
         IN  <<m>> \o Sorted(S \ {m})

Range(seq) == {seq[i] : i \in 1..Len(seq)}

SetMax(S) == CHOOSE x \in S : \A y \in S : y <= x

\* one row of the longest-common-subsequence table, column j at index j + 1:
\* ch is left out, or is matched with an equal b[k]
LcsRow(prev, ch, b) ==
    SubSeq([j \in 1..(Len(b) + 1) |->
               SetMax({prev[j]} \cup {prev[k] + 1 : k \in {k \in 1..(j - 1) : b[k] = ch}})],
           1, Len(b) + 1)

RECURSIVE LcsFrom(_, _, _)
\* rows holds the rows of the table filled so far
LcsFrom(a, b, rows) ==
    LET i == Len(rows)
    IN  IF i > Len(a) THEN rows[i][Len(b) + 1]
        ELSE LcsFrom(a, b, Append(rows, LcsRow(rows[i], a[i], b)))

Lcs(a, b) == LcsFrom(a, b, <<[j \in 1..(Len(b) + 1) |-> 0]>>)

\* Indel.distance: insertions and deletions turning a into b
IndelDistance(a, b) == Len(a) + Len(b) - 2 * Lcs(a, b)

\* 100 - 100 * dist / lensum, 100 when both strings are empty
NormDistance(dist, lensum) == IF lensum = 0 THEN Q(100, 1) ELSE Q(100 * (lensum - dist), lensum)

QMax(x, y) == IF QLe(x, y) THEN y ELSE x

\* the best of the three ratios, from the joined difference tokens and the
\* length of the joined common tokens
SetRatio(diff_ab_joined, diff_ba_joined, sect_len) ==
    LET ab_len == Len(diff_ab_joined)
        ba_len == Len(diff_ba_joined)
        sep == IF sect_len # 0 THEN 1 ELSE 0
        sect_ab_len == sect_len + sep + ab_len
        sect_ba_len == sect_len + sep + ba_len
        diff_ratio == NormDistance(IndelDistance(diff_ab_joined, diff_ba_joined),
                               sect_ab_len + sect_ba_len)
        sect_ab_ratio == NormDistance(sep + ab_len, sect_len + sect_ab_len)
        sect_ba_ratio == NormDistance(sep + ba_len, sect_len + sect_ba_len)
    IN  IF sect_len = 0 THEN diff_ratio
        ELSE QMax(diff_ratio, QMax(sect_ab_ratio, sect_ba_ratio))

\* token_set_ratio on the token sets of the two strings
TokenSetRatio(tokens_a, tokens_b) ==
    IF tokens_a = {} \/ tokens_b = {} THEN Q(0, 1)
    ELSE IF tokens_a \cap tokens_b # {}
            /\ (tokens_a \subseteq tokens_b \/ tokens_b \subseteq tokens_a)
         THEN Q(100, 1)
    ELSE SetRatio(Join(Sorted(tokens_a \ tokens_b), <<" ">>),
                  Join(Sorted(tokens_b \ tokens_a), <<" ">>),
                  Len(Join(Sorted(tokens_a \cap tokens_b), <<" ">>)))

token_set_ratio(s1, s2) ==
    IF s1 = <<>> \/ s2 = <<>> THEN Q(0, 1)
    ELSE TokenSetRatio(Range(Split(s1)), Range(Split(s2)))

\* process.extractOne keeps the first choice with the best score
Better(best, choice, score) ==
    IF best = None \/ QLt(Val(best)[2], score) THEN Some(<<choice, score>>) ELSE best

RECURSIVE ExtractFrom(_, _, _, _)
ExtractFrom(query, choices, i, best) ==
    IF i > Len(choices) THEN best
    ELSE ExtractFrom(query, choices, i + 1,
                     Better(best, choices[i], token_set_ratio(query, choices[i])))

\* process.extractOne(query, choices, scorer=fuzz.token_set_ratio): the first
\* choice with the best score as Some(<<choice, score>>), None without choices
extractOne(query, choices) == ExtractFrom(query, choices, 1, None)
\* ------------------------------------------------------------- normalizer

fuzzy_threshold == 80

\* TestNormalizer.__init__
alias_map == get_all_aliases
canonical_names == get_all_test_names

\* the four stages of _find_canonical_name, each Some(canonical name) or None

ExactStage(test_name_clean) ==
    IF \E i \in 1..Len(canonical_names) : Lower(canonical_names[i]) = test_name_clean
    THEN Some(canonical_names[CHOOSE i \in 1..Len(canonical_names) :
                 /\ Lower(canonical_names[i]) = test_name_clean
                 /\ \A j \in 1..(i - 1) : Lower(canonical_names[j]) # test_name_clean])
    ELSE None

AliasStage(test_name_clean) ==
    IF DictHas(alias_map, test_name_clean) THEN Some(DictGet(alias_map, test_name_clean))
    ELSE None

\* best_match and best_match[1] >= self.fuzzy_threshold: Some(best_match[0])
AboveThreshold(best_match) ==
    IF best_match # None /\ QLe(Q(fuzzy_threshold, 1), Val(best_match)[2])
    THEN Some(Val(best_match)[1])
    ELSE None

FuzzyStage(test_name_clean) == AboveThreshold(extractOne(test_name_clean, canonical_names))

\* a variant of the last stage that returns the matched alias itself
FuzzyAliasStage_unmapped(test_name_clean) ==
    AboveThreshold(extractOne(test_name_clean, DictKeys(alias_map)))

\* self.alias_map[best_alias_match[0]] for a matched alias
AliasTarget(matched_alias) ==
    IF matched_alias = None THEN None ELSE Some(DictGet(alias_map, Val(matched_alias)))

FuzzyAliasStage(test_name_clean) ==
    AliasTarget(AboveThreshold(extractOne(test_name_clean, DictKeys(alias_map))))

\* the result of a stage when it has one, else what the later stages give
OrElse(found, later) == IF found # None THEN found ELSE later

\* test_name is Some(text) or None; the result Some(canonical name) or None
_find_canonical_name(test_name) ==
    IF test_name = None \/ Val(test_name) = <<>> THEN None
    ELSE LET test_name_clean == Lower(Strip(Val(test_name)))
         IN  OrElse(ExactStage(test_name_clean),
                    OrElse(AliasStage(test_name_clean),
                           OrElse(FuzzyStage(test_name_clean),
                                  FuzzyAliasStage(test_name_clean))))

\* a reference_range dict: the keys it holds, and low and high (None for null)
RefRange(keys, low, high) == [keys |-> keys, low |-> low, high |-> high]
\* ref_range.get(k)
RangeGet(ref_range, k) ==
    IF k \notin ref_range.keys THEN None
    ELSE IF k = "low" THEN ref_range.low ELSE ref_range.high

NormalBase == 70
NormalSlope == 30
AbnormalSlope == 25
AbnormalCap == 95

\* x / y for rationals, y # 0
QDiv(x, y) ==
    IF y.n > 0 THEN Q(x.n * y.d, x.d * y.n) ELSE Q(-(x.n * y.d), x.d * (-y.n))

\* Python's None where the code holds one of a few fixed words
PyNone == "None"

\* a variant of _compute_status that counts a value on the lower bound as low
_compute_status_low_inclusive(value, ref_range) ==
    LET low == RangeGet(ref_range, "low")
        high == RangeGet(ref_range, "high")
        v == Val(value)
        lo == Val(low)
        hi == Val(high)
        status == IF QLe(v, lo) THEN "low" ELSE IF QLt(hi, v) THEN "high" ELSE "normal"
        range_size == QSub(hi, lo)
        \* min(lower_dist, upper_dist) and distance_from_range: the same distance
        distance == QMin(QAbs(QSub(v, lo)), QAbs(QSub(hi, v)))
        ratio == QDiv(distance, range_size)
        normal_conf == RoundDiv(NormalBase * ratio.d + NormalSlope * ratio.n, ratio.d)
        abnormal == Q(NormalBase * ratio.d + AbnormalSlope * ratio.n, ratio.d)
        abnormal_conf == IF QLe(Q(AbnormalCap, 1), abnormal) THEN AbnormalCap
                         ELSE RoundDiv(abnormal.n, abnormal.d)
    IN  IF value = None THEN [raised |-> FALSE, status |-> PyNone, confidence |-> 0]
        ELSE IF low = None \/ high = None
             THEN [raised |-> FALSE, status |-> PyNone, confidence |-> 0]
        ELSE IF range_size.n = 0 THEN [raised |-> TRUE, status |-> PyNone, confidence |-> 0]
        ELSE [raised |-> FALSE, status |-> status,
              confidence |-> IF status = "normal" THEN normal_conf ELSE abnormal_conf]

\* a variant of _compute_status that leaves out the cap on an abnormal value's confidence
_compute_status_uncapped(value, ref_range) ==
    LET low == RangeGet(ref_range, "low")
        high == RangeGet(ref_range, "high")
        v == Val(value)
        lo == Val(low)
        hi == Val(high)
        status == IF QLt(v, lo) THEN "low" ELSE IF QLt(hi, v) THEN "high" ELSE "normal"
        range_size == QSub(hi, lo)
        \* min(lower_dist, upper_dist) and distance_from_range: the same distance
        distance == QMin(QAbs(QSub(v, lo)), QAbs(QSub(hi, v)))
        ratio == QDiv(distance, range_size)
        normal_conf == RoundDiv(NormalBase * ratio.d + NormalSlope * ratio.n, ratio.d)
        abnormal == Q(NormalBase * ratio.d + AbnormalSlope * ratio.n, ratio.d)
        abnormal_conf == RoundDiv(abnormal.n, abnormal.d)
    IN  IF value = None THEN [raised |-> FALSE, status |-> PyNone, confidence |-> 0]
        ELSE IF low = None \/ high = None
             THEN [raised |-> FALSE, status |-> PyNone, confidence |-> 0]
        ELSE IF range_size.n = 0 THEN [raised |-> TRUE, status |-> PyNone, confidence |-> 0]
        ELSE [raised |-> FALSE, status |-> status,
              confidence |-> IF status = "normal" THEN normal_conf ELSE abnormal_conf]

\* a variant of _compute_status that classifies against the lower bound alone
\* when the upper bound is missing
_compute_status_without_high(value, ref_range) ==
    LET low == RangeGet(ref_range, "low")
        high == RangeGet(ref_range, "high")
        v == Val(value)
        lo == Val(low)
        hi == Val(high)
        status == IF QLt(v, lo) THEN "low" ELSE IF QLt(hi, v) THEN "high" ELSE "normal"
        range_size == QSub(hi, lo)
        \* min(lower_dist, upper_dist) and distance_from_range: the same distance
        distance == QMin(QAbs(QSub(v, lo)), QAbs(QSub(hi, v)))
        ratio == QDiv(distance, range_size)
        normal_conf == RoundDiv(NormalBase * ratio.d + NormalSlope * ratio.n, ratio.d)
        abnormal == Q(NormalBase * ratio.d + AbnormalSlope * ratio.n, ratio.d)
        abnormal_conf == IF QLe(Q(AbnormalCap, 1), abnormal) THEN AbnormalCap
                         ELSE RoundDiv(abnormal.n, abnormal.d)
    IN  IF value = None THEN [raised |-> FALSE, status |-> PyNone, confidence |-> 0]
        ELSE IF low = None THEN [raised |-> FALSE, status |-> PyNone, confidence |-> 0]
        ELSE IF high = None
             THEN [raised |-> FALSE,
                   status |-> IF QLt(v, lo) THEN "low" ELSE "normal",
                   confidence |-> NormalBase]
        ELSE IF range_size.n = 0 THEN [raised |-> TRUE, status |-> PyNone, confidence |-> 0]
        ELSE [raised |-> FALSE, status |-> status,
              confidence |-> IF status = "normal" THEN normal_conf ELSE abnormal_conf]

\* a variant of _compute_status that measures a value inside the range from
\* the farther of the two bounds
_compute_status_farther_bound(value, ref_range) ==
    LET low == RangeGet(ref_range, "low")
        high == RangeGet(ref_range, "high")
        v == Val(value)
        lo == Val(low)
        hi == Val(high)
        status == IF QLt(v, lo) THEN "low" ELSE IF QLt(hi, v) THEN "high" ELSE "normal"
        range_size == QSub(hi, lo)
        \* min(lower_dist, upper_dist) and distance_from_range: the same distance
        distance == IF status = "normal"
                    THEN QMax(QAbs(QSub(v, lo)), QAbs(QSub(hi, v)))
                    ELSE QMin(QAbs(QSub(v, lo)), QAbs(QSub(hi, v)))
        ratio == QDiv(distance, range_size)
        normal_conf == RoundDiv(NormalBase * ratio.d + NormalSlope * ratio.n, ratio.d)
        abnormal == Q(NormalBase * ratio.d + AbnormalSlope * ratio.n, ratio.d)
        abnormal_conf == IF QLe(Q(AbnormalCap, 1), abnormal) THEN AbnormalCap
                         ELSE RoundDiv(abnormal.n, abnormal.d)
    IN  IF value = None THEN [raised |-> FALSE, status |-> PyNone, confidence |-> 0]
        ELSE IF low = None \/ high = None
             THEN [raised |-> FALSE, status |-> PyNone, confidence |-> 0]
        ELSE IF range_size.n = 0 THEN [raised |-> TRUE, status |-> PyNone, confidence |-> 0]
        ELSE [raised |-> FALSE, status |-> status,
              confidence |-> IF status = "normal" THEN normal_conf ELSE abnormal_conf]

\* value is Some(rational) or None.  The result: raised (ZeroDivisionError),
\* status ("low", "high", "normal" or PyNone), confidence in hundredths
_compute_status(value, ref_range) ==
    LET low == RangeGet(ref_range, "low")
        high == RangeGet(ref_range, "high")
        v == Val(value)
        lo == Val(low)
        hi == Val(high)
        status == IF QLt(v, lo) THEN "low" ELSE IF QLt(hi, v) THEN "high" ELSE "normal"
        range_size == QSub(hi, lo)
        \* min(lower_dist, upper_dist) and distance_from_range: the same distance
        distance == QMin(QAbs(QSub(v, lo)), QAbs(QSub(hi, v)))
        ratio == QDiv(distance, range_size)
        normal_conf == RoundDiv(NormalBase * ratio.d + NormalSlope * ratio.n, ratio.d)
        abnormal == Q(NormalBase * ratio.d + AbnormalSlope * ratio.n, ratio.d)
        abnormal_conf == IF QLe(Q(AbnormalCap, 1), abnormal) THEN AbnormalCap
                         ELSE RoundDiv(abnormal.n, abnormal.d)
    IN  IF value = None THEN [raised |-> FALSE, status |-> PyNone, confidence |-> 0]
        ELSE IF low = None \/ high = None
             THEN [raised |-> FALSE, status |-> PyNone, confidence |-> 0]
        ELSE IF range_size.n = 0 THEN [raised |-> TRUE, status |-> PyNone, confidence |-> 0]
        ELSE [raised |-> FALSE, status |-> status,
              confidence |-> IF status = "normal" THEN normal_conf ELSE abnormal_conf]

ExactNameConfidence == 100
AliasNameConfidence == 95

\* a variant that takes a name found in the alias map for an exact one
_calculate_name_confidence_alias_exact(original, normalized) ==
    IF original = None \/ normalized = None \/ Val(original) = <<>> \/ Val(normalized) = <<>>
    THEN Q(0, 1)
    ELSE LET o == Lower(Val(original))
             score == token_set_ratio(o, Lower(Val(normalized)))
         IN  IF o = Lower(Val(normalized)) THEN Q(ExactNameConfidence, 1)
             ELSE IF DictHas(alias_map, o) /\ DictGet(alias_map, o) = Val(normalized)
                  THEN Q(ExactNameConfidence, 1)
             ELSE QMin(score, Q(100, 1))

\* original and normalized are Some(text) or None; a rational in hundredths
_calculate_name_confidence(original, normalized) ==
    IF original = None \/ normalized = None \/ Val(original) = <<>> \/ Val(normalized) = <<>>
    THEN Q(0, 1)
    ELSE LET o == Lower(Val(original))
             score == token_set_ratio(o, Lower(Val(normalized)))
         IN  IF o = Lower(Val(normalized)) THEN Q(ExactNameConfidence, 1)
             ELSE IF DictHas(alias_map, o) /\ DictGet(alias_map, o) = Val(normalized)
                  THEN Q(AliasNameConfidence, 1)
             ELSE QMin(score, Q(100, 1))

Failed(reason) == [status |-> "failed", reason |-> reason, normalization_confidence |-> 0]
Errored(error) ==
    [status |-> "error", error |-> error, reason |-> <<"Exception", error>>,
     normalization_confidence |-> 0]

\* a variant that emits the status word the line declares, when it has one
NormalizeFound_declared(parsed_test, normalized_name, test_config, st, name_confidence) ==
    LET cfg == Val(test_config)
        \* (name_confidence + parsed_test.confidence + status_confidence) / 3
        overall == Q(name_confidence.n + (parsed_test.confidence + st.confidence) * name_confidence.d,
                     3 * name_confidence.d)
        none == [name_confidence |-> Q(0, 1), status_confidence |-> 0]
    IN  IF test_config = None
        THEN [result |-> Failed(<<"No reference data", normalized_name>>)] @@ none
        ELSE IF st.raised THEN [result |-> Errored("ZeroDivisionError")] @@ none
        ELSE IF ~({"low", "high"} \subseteq cfg.reference_range.keys)
             THEN [result |-> Errored("KeyError"),
                   name_confidence |-> name_confidence, status_confidence |-> st.confidence]
        ELSE [result |->
                [status |-> "ok",
                 name |-> Val(normalized_name),
                 value |-> parsed_test.value,
                 unit |-> cfg.unit,
                 test_status |-> IF parsed_test.status = None THEN st.status
                                 ELSE IF Val(parsed_test.status) = <<"l", "o", "w">> THEN "low"
                                 ELSE IF Val(parsed_test.status) = <<"h", "i", "g", "h">>
                                      THEN "high"
                                 ELSE "normal",
                 ref_range |-> [low |-> cfg.reference_range.low,
                                high |-> cfg.reference_range.high],
                 category |-> cfg.category,
                 normalization_confidence |-> RoundDiv(overall.n, overall.d),
                 parse_confidence |-> parsed_test.confidence],
              name_confidence |-> name_confidence, status_confidence |-> st.confidence]

\* normalize_test from the name found: test_config is what get_test_by_name
\* returns for it, st and name_confidence what _compute_status and
\* _calculate_name_confidence return
NormalizeFound(parsed_test, normalized_name, test_config, st, name_confidence) ==
    LET cfg == Val(test_config)
        \* (name_confidence + parsed_test.confidence + status_confidence) / 3
        overall == Q(name_confidence.n + (parsed_test.confidence + st.confidence) * name_confidence.d,
                     3 * name_confidence.d)
        none == [name_confidence |-> Q(0, 1), status_confidence |-> 0]
    IN  IF test_config = None
        THEN [result |-> Failed(<<"No reference data", normalized_name>>)] @@ none
        ELSE IF st.raised THEN [result |-> Errored("ZeroDivisionError")] @@ none
        ELSE IF ~({"low", "high"} \subseteq cfg.reference_range.keys)
             THEN [result |-> Errored("KeyError"),
                   name_confidence |-> name_confidence, status_confidence |-> st.confidence]
        ELSE [result |->
                [status |-> "ok",
                 name |-> Val(normalized_name),
                 value |-> parsed_test.value,
                 unit |-> cfg.unit,
                 test_status |-> st.status,
                 ref_range |-> [low |-> cfg.reference_range.low,
                                high |-> cfg.reference_range.high],
                 category |-> cfg.category,
                 normalization_confidence |-> RoundDiv(overall.n, overall.d),
                 parse_confidence |-> parsed_test.confidence],
              name_confidence |-> name_confidence, status_confidence |-> st.confidence]

\* normalize_test from what _find_canonical_name returns
NormalizeNamed(parsed_test, normalized_name) ==
    IF normalized_name = None
    THEN [result |-> Failed(<<"Unknown test", parsed_test.name>>),
          name_confidence |-> Q(0, 1), status_confidence |-> 0]
    ELSE LET test_config == get_test_by_name(Val(normalized_name))
         IN  NormalizeFound(parsed_test, normalized_name, test_config,
                            _compute_status(parsed_test.value,
                                            Val(test_config).reference_range),
                            _calculate_name_confidence(parsed_test.name, normalized_name))

\* normalize_test with the confidences it computes on the way
normalize_test_steps(parsed_test) ==
    NormalizeNamed(parsed_test, _find_canonical_name(parsed_test.name))

normalize_test(parsed_test) == normalize_test_steps(parsed_test).result

RECURSIVE SumConfidence(_)
SumConfidence(tests) ==
    IF tests = <<>> THEN 0 ELSE Head(tests).normalization_confidence + SumConfidence(Tail(tests))

\* a variant of the pass in which a failed candidate discards the tests
\* normalized before it
Collect_discarding(both, parsed_test, normalized_test) ==
    IF normalized_test.status = "ok"
    THEN <<Append(both[1], normalized_test), both[2]>>
    ELSE <<<<>>,
           Append(both[2],
                  [raw_line |-> parsed_test.raw_line,
                   reason |-> normalized_test.reason,
                   confidence |-> normalized_test.normalization_confidence])>>

\* one pass of the loop of normalize_multiple_tests: both is <<normalized,
\* failed_tests>> and normalized_test what normalize_test returned
Collect(both, parsed_test, normalized_test) ==
    IF normalized_test.status = "ok"
    THEN <<Append(both[1], normalized_test), both[2]>>
    ELSE <<both[1],
           Append(both[2],
                  [raw_line |-> parsed_test.raw_line,
                   reason |-> normalized_test.reason,
                   confidence |-> normalized_test.normalization_confidence])>>

RECURSIVE NormalizeFrom(_, _, _)
\* the loop of normalize_multiple_tests: <<normalized, failed_tests>>
NormalizeFrom(parsed_tests, i, both) ==
    IF i > Len(parsed_tests) THEN both
    ELSE NormalizeFrom(parsed_tests, i + 1,
                       Collect(both, parsed_tests[i], normalize_test(parsed_tests[i])))

\* a variant of the returned dict that averages over all candidates, the
\* failed ones included
BatchResult_over_candidates(parsed_tests, normalized, failed_tests) ==
    [status |-> IF normalized # <<>> THEN "ok" ELSE "failed",
     tests |-> normalized,
     failed_tests |-> failed_tests,
     normalization_confidence |->
         IF normalized # <<>> THEN RoundDiv(SumConfidence(normalized), Len(parsed_tests))
         ELSE 0,
     total_tests |-> Len(parsed_tests),
     successful_tests |-> Len(normalized),
     failed_count |-> Len(failed_tests)]

\* the dict normalize_multiple_tests returns
BatchResult(parsed_tests, normalized, failed_tests) ==
    [status |-> IF normalized # <<>> THEN "ok" ELSE "failed",
     tests |-> normalized,
     failed_tests |-> failed_tests,
     normalization_confidence |->
         IF normalized # <<>> THEN RoundDiv(SumConfidence(normalized), Len(normalized))
         ELSE 0,
     total_tests |-> Len(parsed_tests),
     successful_tests |-> Len(normalized),
     failed_count |-> Len(failed_tests)]

normalize_multiple_tests(parsed_tests) ==
    LET both == NormalizeFrom(parsed_tests, 1, <<<<>>, <<>>>>)
    IN  BatchResult(parsed_tests, both[1], both[2])
\* ------------------------------------------------------------- text extraction

ocr_non_test_keywords ==
    <<
    <<"a","d","d","r","e","s","s">>, <<"p","h","o","n","e">>, <<"p","h">>,
    <<"c","o","n","t","a","c","t">>, <<"m","o","b","i","l","e">>, <<"c","l","i","n","i","c">>,
    <<"d","o","c","t","o","r">>, <<"p","a","t","i","e","n","t">>, <<"n","a","m","e">>,
    <<"a","g","e">>, <<"s","e","x">>, <<"i","d">>, <<"i","n","v","o","i","c","e">>,
    <<"b","i","l","l">>, <<"r","e","p","o","r","t">>, <<"e","m","a","i","l">>, <<"d","o","b">>,
    <<"l","a","b">>, <<"r","e","g","i","s","t","r","a","t","i","o","n">>,
    <<"r","e","g","n","o">>
    >>

\* the artifacts among the characters of the texts here; the code also drops
\* the backquote and the degree sign
ocr_artifacts == {"|", "~", "^"}

MinOcrLineLen == 3
MinCleanLineLen == 5

\* None for a line without meaningful content
_clean_ocr_line(raw) ==
    LET joined == Join(Split(raw), <<" ">>)
        line == SelectSeq(joined, LAMBDA c : c \notin ocr_artifacts)
    IN  IF CountIn(line, Digits) > 0 /\ Len(line) > MinCleanLineLen THEN Some(line) ELSE None

RECURSIVE ParseTestLinesFrom(_, _)
ParseTestLinesFrom(lines, test_lines) ==
    IF lines = <<>> THEN test_lines
    ELSE LET line == Strip(Head(lines))
             cleaned_line == _clean_ocr_line(line)
         IN  IF line = <<>> \/ Len(line) < MinOcrLineLen
             THEN ParseTestLinesFrom(Tail(lines), test_lines)
             ELSE IF \E k \in 1..Len(ocr_non_test_keywords) :
                         HasWord(ocr_non_test_keywords[k], Lower(line))
                  THEN ParseTestLinesFrom(Tail(lines), test_lines)
             ELSE IF CountIn(line, Letters) > 0 /\ CountIn(line, Digits) > 0
                     /\ cleaned_line # None
                  THEN ParseTestLinesFrom(Tail(lines), Append(test_lines, Val(cleaned_line)))
             ELSE ParseTestLinesFrom(Tail(lines), test_lines)

\* the text is the sequence of its lines, split at the line ends
_parse_test_lines(raw_text) == ParseTestLinesFrom(raw_text, <<>>)

TextConfidence == 95
EmptyTextConfidence == 50

extract_from_text(raw_text) ==
    LET test_lines == _parse_test_lines(raw_text)
    IN  [status |-> "ok",
         tests_raw |-> test_lines,
         confidence |-> IF test_lines # <<>> THEN TextConfidence ELSE EmptyTextConfidence,
         raw_text |-> raw_text]

\* ------------------------------------------------------------- parser, batch

\* one pass of the loop of parse_multiple_lines: parsed is what parse_line
\* returned for the stripped line
Keep(parsed_tests, line, parsed) ==
    IF line # <<>> /\ parsed.value # None THEN Append(parsed_tests, parsed) ELSE parsed_tests

RECURSIVE ParseMultipleFrom(_, _)
ParseMultipleFrom(lines, parsed_tests) ==
    IF lines = <<>> THEN parsed_tests
    ELSE ParseMultipleFrom(Tail(lines),
                           Keep(parsed_tests, Strip(Head(lines)),
                                parse_line(Strip(Head(lines)))))

parse_multiple_lines(lines) == ParseMultipleFrom(lines, <<>>)

\* ------------------------------------------------------------- guardrail and summary

\* some alias mapped to test_name is in the text
AliasInInput(all_aliases, test_name, combined_input) ==
    \E i \in 1..Len(all_aliases) :
        all_aliases[i][2] = test_name /\ Contains(combined_input, all_aliases[i][1])

\* sum(1 for word in key_words if word in combined_input and len(word) > 2)
KeyWordMatches(key_words, combined_input) ==
    Cardinality({i \in 1..Len(key_words) :
                    Contains(combined_input, key_words[i]) /\ Len(key_words[i]) > 2})

TracedToInput(test_name, all_aliases, combined_input) ==
    LET test_name_lower == Lower(test_name)
        key_words == Split(test_name_lower)
    IN  \/ Contains(combined_input, test_name_lower)
        \/ AliasInInput(all_aliases, test_name, combined_input)
        \/ IF Len(key_words) >= 2 THEN KeyWordMatches(key_words, combined_input) >= 2
           ELSE Len(key_words) = 1 /\ Contains(combined_input, key_words[1])

\* a variant of guardrail_check that does not look for aliases
guardrail_check_without_aliases(input_tests_raw, tests) ==
    LET combined_input == Lower(Join(input_tests_raw, <<" ">>))
        all_aliases == <<>>
        flagged == SelectSeq(tests,
                             LAMBDA test : ~TracedToInput(test.name, all_aliases, combined_input))
        hallucinated == [i \in 1..Len(flagged) |-> flagged[i].name]
    IN  IF hallucinated # <<>>
        THEN [status |-> "warning", hallucinated_tests |-> hallucinated]
        ELSE [status |-> "ok", hallucinated_tests |-> <<>>]

guardrail_check(input_tests_raw, tests) ==
    LET combined_input == Lower(Join(input_tests_raw, <<" ">>))
        all_aliases == get_all_aliases
        flagged == SelectSeq(tests,
                             LAMBDA test : ~TracedToInput(test.name, all_aliases, combined_input))
        hallucinated == [i \in 1..Len(flagged) |-> flagged[i].name]
    IN  IF hallucinated # <<>>
        THEN [status |-> "warning", hallucinated_tests |-> hallucinated]
        ELSE [status |-> "ok", hallucinated_tests |-> <<>>]

\* the narrative generator, as far as the pipeline reads its result: the
\* summary text is a fixed sentence for no tests and a generated one otherwise
generate_summary(tests) ==
    IF tests = <<>>
    THEN [status |-> "empty", summary |-> "No test results were found to summarize.",
          explanations |-> <<>>, tests_summary |-> <<>>]
    ELSE [status |-> "ok", summary |-> "generated",
          explanations |-> [i \in 1..Len(tests) |-> tests[i].name],
          tests_summary |-> [i \in 1..Len(tests) |->
                                [name |-> tests[i].name,
                                 value |-> tests[i].value,
                                 status |-> tests[i].status]]]

\* ------------------------------------------------------------- inputs

\* the blood_tests of reference_ranges.json: canonical name, unit, reference
\* range, category and aliases of each test
ReferenceCatalog ==
    <<
     [name |-> <<"H","e","m","o","g","l","o","b","i","n">>,
      unit |-> <<"g","/","d","L">>,
      reference_range |-> RefRange({"low", "high"}, Some(Q(12, 1)), Some(Q(15, 1))),
      category |-> <<"h","e","m","a","t","o","l","o","g","y">>,
      aliases |-> <<<<"H","b">>, <<"H","g","b">>, <<"H","a","e","m","o","g","l","o","b","i","n">>>>],
     [name |-> <<"W","B","C">>,
      unit |-> <<"/","u","L">>,
      reference_range |-> RefRange({"low", "high"}, Some(Q(4000, 1)), Some(Q(11000, 1))),
      category |-> <<"h","e","m","a","t","o","l","o","g","y">>,
      aliases |-> <<<<"W","h","i","t","e"," ","B","l","o","o","d"," ","C","e","l","l","s">>, <<"L","e","u","k","o","c","y","t","e","s">>>>],
     [name |-> <<"G","l","u","c","o","s","e">>,
      unit |-> <<"m","g","/","d","L">>,
      reference_range |-> RefRange({"low", "high"}, Some(Q(70, 1)), Some(Q(100, 1))),
      category |-> <<"d","i","a","b","e","t","e","s">>,
      aliases |-> <<<<"B","l","o","o","d"," ","S","u","g","a","r">>, <<"F","B","S">>>>],
     [name |-> <<"T","o","t","a","l"," ","C","h","o","l","e","s","t","e","r","o","l">>,
      unit |-> <<"m","g","/","d","L">>,
      reference_range |-> RefRange({"low", "high"}, Some(Q(125, 1)), Some(Q(200, 1))),
      category |-> <<"l","i","p","i","d">>,
      aliases |-> <<<<"T","C">>>>]
    >>

\* the parts of lines of the shape: name value unit (Status)
ShapeNames ==
    {
     <<"H","e","m","o","g","l","o","b","i","n">>, <<"W","B","C">>,
     <<"T","o","t","a","l"," ","C","h","o","l","e","s","t","e","r","o","l">>, <<"Z","z","z">>
    }

ShapeValues ==
    {
     <<"1","0",".","2">>, <<"5","0","0","0">>, <<"0">>, <<"1","1",",","2","0","0">>,
     <<"1",".","2",".","3">>
    }

ShapeUnits ==
    {
     <<"g","/","d","L">>, <<"/","u","L">>, <<"/","m","m","3">>, <<"f","o","o">>
    }

ShapeStatusWords ==
    {
     <<"L","o","w">>, <<"H","I","G","H">>, <<"n","o","r","m","a","l">>
    }

\* lines of other shapes
OtherLines ==
    {
     <<"R","B","C"," ","5"," ","4"," ","-"," ","6"," ","m","i","l","l","/","c","u","m","m">>,
     <<"R","B","C"," ","5",".","2"," ","4",".","5"," ","-"," ","5",".","5"," ","m","i","l","l","/","c","u","m","m">>,
     <<"R","B","C"," ","5",".","2"," ","4",".","5"," ",EnDash," ","5",".","5"," ","m","i","l","l","/","c","u","m","m">>,
     <<"W","B","C",":"," ","1","1",",","2","0","0"," ","/","u","L">>,
     <<"H","e","m","o","g","l","o","b","i","n",":"," ","1","3",".","5"," ","g","/","d","L">>,
     <<"H","e","m","o","g","l","o","b","i","n"," ","1","0",".","2"," ","g","/","d","L"," ","(","L","o","W",")">>,
     <<"H","e","m","o","g","l","o","b","i","n"," ","1","0",".","2"," ","g","/","d","L"," ","[","H","i","g","h","]">>,
     <<" "," ","G","l","u","c","o","s","e"," ","9","5"," ","m","g","/","d","L"," "," ">>,
     <<"F","o","o"," ","1","0","0","0","0","0"," ","b","a","r">>,
     <<"T","3"," ","1",".","2"," ","n","g","/","m","L">>,
     <<"P","a","t","i","e","n","t"," ","N","a","m","e",":"," ","J","o","h","n"," ","4","5">>,
     <<"T","h","i","s"," ","i","s"," ","n","o","t"," ","a"," ","v","a","l","i","d"," ","t","e","s","t"," ","l","i","n","e">>,
     <<"H","b"," ","1">>, <<"1","2","3","4","5"," ","6","7","8","9","0"," ","1","2","3","4">>, <<>>
    }

\* the lines process_text is given
PipelineLines ==
    {
     <<"H","e","m","o","g","l","o","b","i","n"," ","1","0",".","2"," ","g","/","d","L"," ","(","L","o","w",")">>,
     <<"H","b"," ","1","3",".","5"," ","g","/","d","L">>,
     <<"H","e","m","o","g","l","o","b","l","i","n"," ","1","0",".","2"," ","g","/","d","L">>,
     <<"C","h","o","l","e","s","t","e","r","o","l"," ","T","o","t","a","l"," ","2","2","0"," ","m","g","/","d","L">>,
     <<"L","e","u","k","o","c","y","t","e"," ","5","0","0","0"," ","/","u","L">>,
     <<"Z","z","z"," ","5",".","0"," ","u","n","i","t","s">>,
     <<"H","b"," ","1",".","2",".","3"," ","g","/","d","L">>,
     <<"N","o","t","e","s"," ","o","n","l","y">>
    }

\* the parts of lines of the shape: name value low-high unit
RangeNames ==
    {
     <<"H","e","m","o","g","l","o","b","i","n">>, <<"W","B","C">>
    }

RangeValues ==
    {
     <<"1","0",".","2">>, <<"5","0","0","0">>
    }

\* low and high as written
RangeBounds ==
    {
     <<<<"1","2",".","0">>, <<"1","5",".","0">>>>, <<<<"1","2">>, <<"1","5">>>>,
     <<<<"4","0","0","0">>, <<"1","1","0","0","0">>>>, <<<<"4",".","5">>, <<"5",".","5">>>>
    }

RangeDashes ==
    {
     <<"-">>, <<" ","-"," ">>, <<" ",EnDash," ">>
    }

RangeUnits ==
    {
     <<"g","/","d","L">>, <<"/","u","L">>
    }

\* the names _find_canonical_name is asked for
QueryNames ==
    {
     <<>>, <<" "," "," ">>, <<"H","e","m","o","g","l","o","b","i","n">>,
     <<"h","e","m","o","g","l","o","b","i","n">>,
     <<" ","H","E","M","O","G","L","O","B","I","N"," ">>, <<"H","b">>, <<"h","g","b">>,
     <<"F","B","S">>, <<"t","c">>, <<"W","B","C">>,
     <<"W","h","i","t","e"," ","B","l","o","o","d"," ","C","e","l","l","s">>,
     <<"H","e","m","o","g","l","o","b","l","i","n">>, <<"H","a","e","m","o","g","l","o","b","n">>,
     <<"G","l","u","k","o","s","e">>, <<"L","e","u","k","o","c","y","t","e">>,
     <<"S","u","g","a","r">>, <<"B","l","o","o","d"," ","S","u","g","e","r">>,
     <<"C","h","o","l","e","s","t","e","r","o","l"," ","T","o","t","a","l">>,
     <<"C","h","o","l","e","s","t","e","r","o","l">>, <<"Z","z","z">>,
     <<"W","b","c"," ","c","o","u","n","t">>,
     <<"G","l","u","c","o","s","e"," ","f","a","s","t","i","n","g">>,
     <<"h","e","m","o","g","l","o","b","b","i","n">>,
     <<"z","z","z"," ","n","o","t"," ","a"," ","t","e","s","t">>,
     <<"G","l","u","c","o","s","e","s">>,
     <<"t","o","t","a","l"," ","c","h","o","l","e","s","t","r","o","l">>,
     <<"w","h","i","t","e"," ","c","e","l","l","s">>, <<"b","l","o","o","d">>,
     <<"H","e","m","o","g","l","o","b","i","n"," ","A">>,
     <<"h","a","e","m","o","g","l","o","b","i","n"," ","l","e","v","e","l">>,
     <<"L","e","u","k","o","c","y","t","e","s">>, <<"B","l","o","o","d"," ","S","u","g","a","r">>,
     <<"H","a","e","m","o","g","l","o","b","i","n">>, <<"H","g","b"," ">>
    }

\* the lines whose parse normalize_test is given
NormalizeLines ==
    {
     <<"H","e","m","o","g","l","o","b","i","n"," ","1","0",".","2"," ","g","/","d","L"," ","(","L","o","w",")">>,
     <<"H","e","m","o","g","l","o","b","i","n"," ","1","2"," ","g","/","d","L">>,
     <<"H","e","m","o","g","l","o","b","i","n"," ","1","3",".","5"," ","g","/","d","L">>,
     <<"H","e","m","o","g","l","o","b","i","n"," ","1","6",".","1"," ","g","/","d","L">>,
     <<"H","b"," ","1","3",".","5"," ","g","/","d","L">>,
     <<"H","e","m","o","g","l","o","b","l","i","n"," ","1","0",".","2"," ","g","/","d","L">>,
     <<"L","e","u","k","o","c","y","t","e"," ","5","0","0","0"," ","/","u","L">>,
     <<"W","B","C"," ","1","1","2","0","0"," ","/","u","L">>,
     <<"G","l","u","c","o","s","e"," ","7","0"," ","m","g","/","d","L">>,
     <<"C","h","o","l","e","s","t","e","r","o","l"," ","T","o","t","a","l"," ","2","2","0"," ","m","g","/","d","L">>,
     <<"G","l","u","k","o","s","e"," ","1","2","5"," ","m","g","/","d","L">>,
     <<"Z","z","z"," ","5",".","0"," ","u","n","i","t","s">>,
     <<"S","u","g","a","r"," ","0"," ","f","o","o">>,
     <<"T","h","i","s"," ","i","s"," ","n","o","t"," ","a"," ","v","a","l","i","d"," ","t","e","s","t"," ","l","i","n","e">>,
     <<"W","B","C"," ","3","9","9","9",".","5"," ","/","u","L">>,
     <<"G","l","u","c","o","s","e"," ","8","5"," ","m","g","/","d","L">>,
     <<"G","l","u","c","o","s","e"," ","1","0","0",".","5"," ","m","g","/","d","L">>,
     <<"T","C"," ","3","0","0"," ","m","g","/","d","L">>,
     <<"B","l","o","o","d"," ","S","u","g","e","r"," ","5","0","0"," ","m","g","/","d","L">>,
     <<"W","h","i","t","e"," ","B","l","o","o","d"," ","C","e","l","l","s"," ","4","0","0","0"," ","/","u","L">>,
     <<"F","B","S"," ","9","9",".","9"," ","m","g","/","d","L">>,
     <<"T","o","t","a","l"," ","C","h","o","l","e","s","t","e","r","o","l"," ","1","2","5"," ","m","g","/","d","L">>,
     <<"H","e","m","o","g","l","o","b","i","n"," ","1","0",".","2"," ","g","/","d","L">>,
     <<"H","e","m","o","g","l","o","b","i","n"," ","1","0",".","2"," ","g","/","d","L"," ","(","H","i","g","h",")">>,
     <<"H","e","m","o","g","l","o","b","i","n"," ","1","0",".","2"," ","m","g","/","L"," ","(","N","o","r","m","a","l",")">>
    }

\* the lines whose parses normalize_multiple_tests is given
BatchLines ==
    {
     <<"H","e","m","o","g","l","o","b","i","n"," ","1","0",".","2"," ","g","/","d","L"," ","(","L","o","w",")">>,
     <<"H","b"," ","1","3",".","5"," ","g","/","d","L">>,
     <<"L","e","u","k","o","c","y","t","e"," ","5","0","0","0"," ","/","u","L">>,
     <<"S","u","g","a","r"," ","0"," ","f","o","o">>,
     <<"Z","z","z"," ","5",".","0"," ","u","n","i","t","s">>,
     <<"G","l","u","k","o","s","e"," ","1","2","5"," ","m","g","/","d","L">>,
     <<"C","h","o","l","e","s","t","e","r","o","l"," ","T","o","t","a","l"," ","2","2","0"," ","m","g","/","d","L">>
    }

\* name value unit, with the status word in round brackets when there is one
ShapedLine(name, value, unit, status) ==
    name \o <<" ">> \o value \o <<" ">> \o unit
         \o (IF status = None THEN <<>> ELSE <<" ", "(">> \o Val(status) \o <<")">>)

ShapeStatuses == {None} \cup {Some(w) : w \in ShapeStatusWords}

\* name value low-high unit, dash being the dash of the range with its blanks
RangedLine(name, value, bounds, dash, unit) ==
    name \o <<" ">> \o value \o <<" ">> \o bounds[1] \o dash \o bounds[2] \o <<" ">> \o unit

\* the lines parse_line is given: parts is <<name, value, unit, status>> for a
\* line built from them, range is <<name, value, bounds, unit>> for a line
\* with a reference range, and both are <<>> for any other line
ParseInputs ==
    {[parts |-> <<n, v, u, s>>, range |-> <<>>, line |-> ShapedLine(n, v, u, s)] :
        n \in ShapeNames, v \in ShapeValues, u \in ShapeUnits, s \in ShapeStatuses}
    \cup {[parts |-> <<>>, range |-> <<n, v, b, u>>, line |-> RangedLine(n, v, b, d, u)] :
             n \in RangeNames, v \in RangeValues, b \in RangeBounds, d \in RangeDashes,
             u \in RangeUnits}
    \cup {[parts |-> <<>>, range |-> <<>>, line |-> l] : l \in OtherLines}

MaxBound == 4
\* the values, in halves, and the reference ranges _compute_status is given
StatusValues == {None} \cup {Some(Q(n, 2)) : n \in (-2)..(2 * MaxBound + 2)}
StatusBounds == {None} \cup {Some(Q(n, 1)) : n \in 0..MaxBound}
\* a range many times as wide as the step between two values
WideRange == RefRange({"low", "high"}, Some(Q(0, 1)), Some(Q(10 * MaxBound + 10, 1)))
StatusRanges ==
    {RefRange({"low", "high"}, low, high) : low \in StatusBounds, high \in StatusBounds}
    \cup {RefRange({"low"}, Some(Q(1, 1)), None), RefRange({}, None, None), WideRange}

\* a candidate with a name and no value, as a caller may build one
ValuelessTest ==
    ParsedTest(Some(<<"H","e","m","o","g","l","o","b","i","n">>), None,
               Some(<<"g","/","d","L">>), None,
               <<"H","e","m","o","g","l","o","b","i","n">>, 85)

NormalizeInputs == {parse_line(l) : l \in NormalizeLines} \cup {ValuelessTest}

MaxBatch == 2
RECURSIVE SeqsUpTo(_, _)
\* the sequences over S of length at most n
SeqsUpTo(S, n) ==
    IF n = 0 THEN {<<>>}
    ELSE LET shorter == SeqsUpTo(S, n - 1)
         IN  shorter \cup {Append(s, x) : s \in {q \in shorter : Len(q) = n - 1}, x \in S}

BatchInputs == SeqsUpTo({parse_line(l) : l \in BatchLines}, MaxBatch)

MaxLines == 2
Texts == SeqsUpTo(PipelineLines, MaxLines)

\* ------------------------------------------------------------- operations

locals == <<text, extraction_result, valid_parsed_tests, normalization_result,
            normalized_tests, guardrail_result>>
request == <<pc, locals, result, ran>>
vars == <<reference_ranges, workers, call, request>>

NoCall == [op |-> "none"]

\* the threads that call into ConfigLoader
MaxWorkers == 2
Threads == 1..MaxWorkers

\* a thread outside ConfigLoader that holds no answer
IdleWorker ==
    [pc |-> "idle", op |-> "none", arg |-> <<>>, loaded |-> None, ranges |-> None,
     ret |-> [op |-> "none"]]
NoWorkers == [t \in Threads |-> IdleWorker]
Idle == call = NoCall /\ pc = "idle"

Init ==
    /\ reference_ranges = ReferenceCatalog
    /\ workers = NoWorkers
    /\ call = NoCall
    /\ pc = "idle"
    /\ text = None
    /\ extraction_result = None
    /\ valid_parsed_tests = None
    /\ normalization_result = None
    /\ normalized_tests = None
    /\ guardrail_result = None
    /\ result = None
    /\ ran = <<>>

\* a catalog with entries that lack a bound: the third has a null high, the
\* fourth no 'high' key
SparseCatalog ==
    [i \in 1..Len(ReferenceCatalog) |->
        IF i = 3
        THEN [ReferenceCatalog[i] EXCEPT
                 !.reference_range = RefRange({"low", "high"}, @.low, None)]
        ELSE IF i = 4
        THEN [ReferenceCatalog[i] EXCEPT !.reference_range = RefRange({"low"}, @.low, None)]
        ELSE ReferenceCatalog[i]]

\* the state after construction over the catalog with missing bounds
InitSparse ==
    /\ reference_ranges = SparseCatalog
    /\ workers = NoWorkers
    /\ call = NoCall
    /\ pc = "idle"
    /\ text = None
    /\ extraction_result = None
    /\ valid_parsed_tests = None
    /\ normalization_result = None
    /\ normalized_tests = None
    /\ guardrail_result = None
    /\ result = None
    /\ ran = <<>>

\* TestNormalizer._compute_status(value, ref_range)
ComputeStatus ==
    /\ Idle
    /\ \E value \in StatusValues, ref_range \in StatusRanges :
          call' = [op |-> "_compute_status", value |-> value, ref_range |-> ref_range,
                   ret |-> _compute_status(value, ref_range)]
    /\ UNCHANGED <<reference_ranges, workers, request>>

\* TestLineParser.parse_line(line)
ParseLine ==
    /\ Idle
    /\ \E input \in ParseInputs :
          \E steps \in {parse_line_steps(input.line)} :
              call' = [op |-> "parse_line", line |-> input.line, parts |-> input.parts,
                       range |-> input.range, tried |-> steps.tried, ret |-> steps.result]
    /\ UNCHANGED <<reference_ranges, workers, request>>

\* TestNormalizer._find_canonical_name(test_name)
FindCanonicalName ==
    /\ Idle
    /\ \E test_name \in {None} \cup {Some(n) : n \in QueryNames} :
          call' = [op |-> "_find_canonical_name", test_name |-> test_name,
                   ret |-> _find_canonical_name(test_name)]
    /\ UNCHANGED <<reference_ranges, workers, request>>

\* TestNormalizer.normalize_test(parsed_test)
NormalizeTest ==
    /\ Idle
    /\ \E parsed_test \in NormalizeInputs :
          \E steps \in {normalize_test_steps(parsed_test)} :
              call' = [op |-> "normalize_test", parsed_test |-> parsed_test,
                       name_confidence |-> steps.name_confidence,
                       status_confidence |-> steps.status_confidence,
                       ret |-> steps.result]
    /\ UNCHANGED <<reference_ranges, workers, request>>

\* TestNormalizer.normalize_multiple_tests(parsed_tests)
NormalizeMultipleTests ==
    /\ Idle
    /\ \E parsed_tests \in BatchInputs :
          call' = [op |-> "normalize_multiple_tests", parsed_tests |-> parsed_tests,
                   ret |-> normalize_multiple_tests(parsed_tests)]
    /\ UNCHANGED <<reference_ranges, workers, request>>

\* process_text up to the first decision of _process_tests: the extraction
ProcessText ==
    /\ Idle
    /\ \E input \in Texts : \E ocr_result \in {extract_from_text(input)} :
          LET tests_raw == ocr_result.tests_raw
          IN  /\ text' = input
              /\ extraction_result' = ocr_result
              /\ ran' = <<"extraction">>
              /\ IF ocr_result.status # "ok"
                 THEN /\ result' = [status |-> "error", error |-> "Text extraction failed",
                                    step |-> "extraction"]
                      /\ pc' = "done"
                 ELSE IF tests_raw = <<>>
                 THEN /\ result' = [status |-> "no_tests_found",
                                    tests |-> <<>>,
                                    summary |-> "No test results were found in the provided input.",
                                    extraction_confidence |-> ocr_result.confidence,
                                    step |-> "extraction"]
                      /\ pc' = "done"
                 ELSE /\ result' = result
                      /\ pc' = "parse"
    /\ UNCHANGED <<reference_ranges, workers, call, valid_parsed_tests, normalization_result,
                   normalized_tests, guardrail_result>>

\* a variant of step 2 that goes on to the normalizer with no parsed test
ParseTests_without_exit ==
    /\ pc = "parse"
    /\ \E parsed_tests \in {parse_multiple_lines(extraction_result.tests_raw)} :
       LET valid == SelectSeq(parsed_tests, LAMBDA t : t.value # None)
       IN  /\ valid_parsed_tests' = valid
           /\ ran' = Append(ran, "parser")
           /\ result' = result
           /\ pc' = "normalize"
    /\ UNCHANGED <<reference_ranges, workers, call, text, extraction_result, normalization_result,
                   normalized_tests, guardrail_result>>

\* step 2 of _process_tests
ParseTests ==
    /\ pc = "parse"
    /\ \E parsed_tests \in {parse_multiple_lines(extraction_result.tests_raw)} :
       LET valid == SelectSeq(parsed_tests, LAMBDA t : t.value # None)
       IN  /\ valid_parsed_tests' = valid
           /\ ran' = Append(ran, "parser")
           /\ IF valid = <<>>
              THEN /\ result' = [status |-> "parse_failed",
                                 tests |-> <<>>,
                                 summary |-> "Could not parse any valid tests from the input.",
                                 extraction_confidence |-> extraction_result.confidence,
                                 step |-> "parser"]
                   /\ pc' = "done"
              ELSE /\ result' = result
                   /\ pc' = "normalize"
    /\ UNCHANGED <<reference_ranges, workers, call, text, extraction_result, normalization_result,
                   normalized_tests, guardrail_result>>

\* a variant of the mapping that leaves the status of normalize_test in place
MapStatus_skipped(tests) == tests

\* test['status'] = test['test_status'], on the dicts normalization_result holds
MapStatus(tests) == [i \in 1..Len(tests) |-> [tests[i] EXCEPT !.status = tests[i].test_status]]

\* step 3 of _process_tests and the mapping of test_status
NormalizeTests ==
    /\ pc = "normalize"
    /\ \E normalized \in {normalize_multiple_tests(valid_parsed_tests)} :
           /\ ran' = Append(ran, "normalizer")
           /\ IF normalized.status # "ok" \/ normalized.tests = <<>>
              THEN /\ normalization_result' = normalized
                   /\ normalized_tests' = normalized_tests
                   /\ result' = [status |-> "normalization_failed",
                                 tests |-> normalized.tests,
                                 failed_tests |-> normalized.failed_tests,
                                 summary |-> "Could not normalize any tests.",
                                 normalization_confidence |-> normalized.normalization_confidence,
                                 step |-> "normalizer"]
                   /\ pc' = "done"
              ELSE /\ normalization_result' = [normalized EXCEPT !.tests = MapStatus(@)]
                   /\ normalized_tests' = MapStatus(normalized.tests)
                   /\ result' = result
                   /\ pc' = "guardrail"
    /\ UNCHANGED <<reference_ranges, workers, call, text, extraction_result, valid_parsed_tests,
                   guardrail_result>>

\* step 4 of _process_tests
Guardrail ==
    /\ pc = "guardrail"
    /\ \E checked \in {guardrail_check(extraction_result.tests_raw, normalized_tests)} :
           /\ guardrail_result' = checked
           /\ normalized_tests' =
                 SelectSeq(normalized_tests,
                           LAMBDA t : t.name \notin Range(checked.hallucinated_tests))
    /\ ran' = Append(ran, "guardrail")
    /\ pc' = "summary"
    /\ UNCHANGED <<reference_ranges, workers, call, text, extraction_result, valid_parsed_tests,
                   normalization_result, result>>

\* step 5 of _process_tests and the final output
Summary ==
    /\ pc = "summary"
    /\ LET summary_result == generate_summary(normalized_tests)
       IN  result' =
             [status |-> "ok",
              tests |-> normalized_tests,
              summary |-> summary_result.summary,
              explanations |-> summary_result.explanations,
              tests_summary |-> summary_result.tests_summary,
              metadata |->
                 [extraction_confidence |-> extraction_result.confidence,
                  normalization_confidence |-> normalization_result.normalization_confidence,
                  total_tests_extracted |-> Len(extraction_result.tests_raw),
                  total_tests_parsed |-> Len(valid_parsed_tests),
                  total_tests_normalized |-> Len(normalized_tests),
                  failed_tests |-> normalization_result.failed_tests,
                  guardrail_warnings |-> guardrail_result.hallucinated_tests]]
    /\ ran' = Append(ran, "summary")
    /\ pc' = "done"
    /\ UNCHANGED <<reference_ranges, workers, call, locals>>


\* ------------------------------------------------------------- batch endpoint

\* an item of the JSON body: a string, held as its lines, or a value of
\* another type
JsonStr(lines) == [type |-> "str", value |-> lines]
JsonOther(type_name) == [type |-> type_name]

\* extract_from_text on an item of any type: text.split raises AttributeError
\* on a value that is no str, and the handler of extract_from_text turns it
\* into an error result
extract_from_item(report_text) ==
    IF report_text.type = "str"
    THEN extract_from_text(report_text.value)
    ELSE [status |-> "error",
          error |-> <<"AttributeError", report_text.type, "split">>,
          tests_raw |-> <<>>,
          confidence |-> 0]

\* the final output of _process_tests: tests are the tests the guardrail left,
\* summary_result is what generate_summary returned for them
FinalOutput(ocr_result, valid, normalized, tests, checked, summary_result) ==
    [status |-> "ok",
     tests |-> tests,
     summary |-> summary_result.summary,
     explanations |-> summary_result.explanations,
     tests_summary |-> summary_result.tests_summary,
     metadata |->
        [extraction_confidence |-> ocr_result.confidence,
         normalization_confidence |-> normalized.normalization_confidence,
         total_tests_extracted |-> Len(ocr_result.tests_raw),
         total_tests_parsed |-> Len(valid),
         total_tests_normalized |-> Len(tests),
         failed_tests |-> normalized.failed_tests,
         guardrail_warnings |-> checked.hallucinated_tests]]

\* steps 4 and 5 of _process_tests: mapped are the normalized tests after the mapping
\* of test_status, checked is what guardrail_check returned for them
GuardrailStage(ocr_result, valid, normalized, mapped, checked) ==
    FinalOutput(ocr_result, valid, normalized,
                SelectSeq(mapped, LAMBDA t : t.name \notin Range(checked.hallucinated_tests)),
                checked,
                generate_summary(
                    SelectSeq(mapped,
                              LAMBDA t : t.name \notin Range(checked.hallucinated_tests))))

\* step 3 of _process_tests: normalized is what normalize_multiple_tests
\* returned for the valid parsed tests
NormalizeStage(ocr_result, valid, normalized) ==
    IF normalized.status # "ok" \/ normalized.tests = <<>>
    THEN [status |-> "normalization_failed",
          tests |-> normalized.tests,
          failed_tests |-> normalized.failed_tests,
          summary |-> "Could not normalize any tests.",
          normalization_confidence |-> normalized.normalization_confidence,
          step |-> "normalizer"]
    ELSE GuardrailStage(ocr_result, valid, normalized, MapStatus(normalized.tests),
                        guardrail_check(ocr_result.tests_raw, MapStatus(normalized.tests)))

\* step 2 of _process_tests: valid are the parsed tests with a value
ParseStage(ocr_result, valid) ==
    IF valid = <<>>
    THEN [status |-> "parse_failed",
          tests |-> <<>>,
          summary |-> "Could not parse any valid tests from the input.",
          extraction_confidence |-> ocr_result.confidence,
          step |-> "parser"]
    ELSE NormalizeStage(ocr_result, valid, normalize_multiple_tests(valid))

_process_tests(ocr_result) ==
    IF ocr_result.tests_raw = <<>>
    THEN [status |-> "no_tests_found",
          tests |-> <<>>,
          summary |-> "No test results were found in the provided input.",
          extraction_confidence |-> ocr_result.confidence,
          step |-> "extraction"]
    ELSE ParseStage(ocr_result,
                    SelectSeq(parse_multiple_lines(ocr_result.tests_raw),
                              LAMBDA t : t.value # None))

\* process_text after the extraction
ExtractedStage(ocr_result) ==
    IF ocr_result.status # "ok"
    THEN [status |-> "error", error |-> ocr_result.error, step |-> "extraction"]
    ELSE _process_tests(ocr_result)

\* process_text as one call, on an item of the body
process_text(report_text) == ExtractedStage(extract_from_item(report_text))

\* result['batch_index'] = i
Stamp(res, i) == [batch_index |-> i] @@ res

\* a variant of the loop that stops at the first report that did not succeed
RECURSIVE SimplifyFrom_aborting(_, _, _)

SimplifyFrom_aborting(reports, i, results) ==
    IF i >= Len(reports)
    THEN results
    ELSE IF process_text(reports[i + 1]).status = "error"
    THEN Append(results, Stamp(process_text(reports[i + 1]), i))
    ELSE SimplifyFrom_aborting(reports, i + 1,
                               Append(results, Stamp(process_text(reports[i + 1]), i)))

\* the loop of batch_simplify from the report of index i on, i counted from 0
\* as enumerate counts; process_text returns for every item, so the loop never
\* appends the entry of its own exception handler
RECURSIVE SimplifyFrom(_, _, _)

SimplifyFrom(reports, i, results) ==
    IF i >= Len(reports)
    THEN results
    ELSE SimplifyFrom(reports, i + 1, Append(results, Stamp(process_text(reports[i + 1]), i)))

MaxReportsPerBatch == 100

\* what the endpoint answers: a body, or the HTTPException it raises
batch_simplify(reports) ==
    IF reports = <<>>
    THEN [status_code |-> 400, detail |-> "'reports' must be a non-empty list"]
    ELSE IF Len(reports) > MaxReportsPerBatch
    THEN [status_code |-> 400, detail |-> "Maximum 100 reports per batch"]
    ELSE [status |-> "ok",
          total_reports |-> Len(reports),
          results |-> SimplifyFrom(reports, 0, <<>>)]

ReportLines ==
    {
     <<"H","b"," ","1","3",".","5"," ","g","/","d","L">>,
     <<"Z","z","z"," ","5",".","0"," ","u","n","i","t","s">>,
     <<"N","o","t","e","s"," ","o","n","l","y">>
    }

\* the reports of a batch: a number, an empty string and one-line strings
\* that end at different stages
ReportItems ==
    {JsonOther("int"), JsonStr(<<>>)}
    \cup {JsonStr(<<l>>) : l \in ReportLines}

MaxReports == 3

\* one report more than the endpoint takes
OversizeBatch == [i \in 1..(MaxReportsPerBatch + 1) |-> JsonOther("int")]

\* as many reports as the endpoint takes
FullBatch == [i \in 1..MaxReportsPerBatch |-> JsonOther("int")]

BatchReports == SeqsUpTo(ReportItems, MaxReports) \cup {FullBatch, OversizeBatch}

BatchSimplify ==
    /\ Idle
    /\ \E reports \in BatchReports :
          call' = [op |-> "batch_simplify", reports |-> reports,
                   ret |-> batch_simplify(reports)]
    /\ UNCHANGED <<reference_ranges, workers, request>>

\* ------------------------------------------------------------- catalog loader

\* the class as it is defined, or as the construction of the pipeline left it
InitLoader ==
    /\ reference_ranges \in {None, ReferenceCatalog}
    /\ workers = NoWorkers
    /\ call = NoCall
    /\ pc = "idle"
    /\ text = None
    /\ extraction_result = None
    /\ valid_parsed_tests = None
    /\ normalization_result = None
    /\ normalized_tests = None
    /\ guardrail_result = None
    /\ result = None
    /\ ran = <<>>

\* the names get_test_by_name is asked for
LoaderNames == {ReferenceCatalog[1].name, <<"Z", "z", "z">>}

\* the methods of ConfigLoader that read the catalog, and the listing of
\* the supported tests, each with its argument
LoaderCalls ==
    {<<"get_reference_ranges", <<>>>>, <<"get_all_test_names", <<>>>>,
     <<"get_all_aliases", <<>>>>, <<"get_supported_tests", <<>>>>}
    \cup {<<"get_test_by_name", n>> : n \in LoaderNames}

\* json.load(f) on reference_ranges.json: the whole catalog
json_load_partial == SubSeq(ReferenceCatalog, 1, 1)

json_load == ReferenceCatalog

\* the tests of get_supported_tests, from the catalog it was handed
get_supported_tests(ranges) ==
    [status |-> "ok",
     tests |-> [i \in 1..Len(ranges) |->
                   [name |-> ranges[i].name,
                    unit |-> ranges[i].unit,
                    reference_range |-> ranges[i].reference_range,
                    category |-> ranges[i].category,
                    aliases |-> ranges[i].aliases]],
     total_tests |-> Len(ranges)]

\* what a method makes of the catalog get_reference_ranges returned to it;
\* the catalog it holds is the one of the current state
Answer(op, arg, ranges) ==
    CASE op = "get_reference_ranges" -> ranges
      [] op = "get_test_by_name" -> get_test_by_name(arg)
      [] op = "get_all_test_names" -> get_all_test_names
      [] op = "get_all_aliases" -> get_all_aliases
      [] op = "get_supported_tests" -> get_supported_tests(ranges)

\* a thread enters one of the methods; what it held of an earlier call is gone
Enter(t) ==
    /\ workers[t].pc = "idle"
    /\ \E c \in LoaderCalls :
          workers' = [workers EXCEPT ![t] = [IdleWorker EXCEPT !.pc = "check", !.op = c[1],
                                                                !.arg = c[2]]]
    /\ UNCHANGED <<reference_ranges, call, request>>

\* if cls._reference_ranges is None
CheckLoaded(t) ==
    /\ workers[t].pc = "check"
    /\ workers' = [workers EXCEPT ![t].pc = IF reference_ranges = None THEN "load" ELSE "return"]
    /\ UNCHANGED <<reference_ranges, call, request>>

\* json.load(f), before the assignment
LoadFile(t) ==
    /\ workers[t].pc = "load"
    /\ workers' = [workers EXCEPT ![t].pc = "store", ![t].loaded = json_load]
    /\ UNCHANGED <<reference_ranges, call, request>>

\* cls._reference_ranges = <what json.load returned>
StoreLoaded(t) ==
    /\ workers[t].pc = "store"
    /\ reference_ranges' = workers[t].loaded
    /\ workers' = [workers EXCEPT ![t].pc = "return", ![t].loaded = None]
    /\ UNCHANGED <<call, request>>

\* return cls._reference_ranges, and what the method answers from it
ReturnLoaded(t) ==
    /\ workers[t].pc = "return"
    /\ workers' = [workers EXCEPT ![t] =
                      [IdleWorker EXCEPT !.ranges = reference_ranges,
                                         !.ret = [op |-> workers[t].op,
                                                  value |-> Answer(workers[t].op, workers[t].arg,
                                                                   reference_ranges)]]]
    /\ UNCHANGED <<reference_ranges, call, request>>

\* ------------------------------------------------------------- repeated calls

\* the calls of normalize_test one instance of the normalizer serves in a row
MaxSequence == 3

SequenceInputs == {parse_line(l) : l \in BatchLines}

\* a variant of the normalizer that takes a name it resolved before for an alias
NormalizeAfter_learning(log, parsed_test) ==
    IF \E i \in 1..Len(log) :
          log[i].parsed_test.name = parsed_test.name /\ log[i].ret.status = "ok"
    THEN NormalizeFound(parsed_test, _find_canonical_name(parsed_test.name),
                        get_test_by_name(Val(_find_canonical_name(parsed_test.name))),
                        _compute_status(parsed_test.value,
                                        Val(get_test_by_name(
                                               Val(_find_canonical_name(parsed_test.name)))
                                           ).reference_range),
                        Q(AliasNameConfidence, 1)).result
    ELSE normalize_test(parsed_test)

\* normalize_test on the instance that served the calls of log: the method
\* reads the attributes __init__ set and writes none of them
NormalizeAfter(log, parsed_test) == normalize_test(parsed_test)

\* the next call of normalize_test on the shared instance
NormalizeInSequence ==
    /\ pc = "idle"
    /\ call.op \in {"none", "normalize_sequence"}
    /\ \E log \in {IF call.op = "none" THEN <<>> ELSE call.log} :
          /\ Len(log) < MaxSequence
          /\ \E input \in SequenceInputs :
                call' = [op |-> "normalize_sequence",
                         log |-> Append(log, [parsed_test |-> input,
                                              ret |-> NormalizeAfter(log, input)])]
    /\ UNCHANGED <<reference_ranges, workers, request>>

\* ------------------------------------------------------------- classifier calls

\* lines with a keyword of the denylist
KeywordLines ==
    {
     <<"D","r","."," ","S","h","a","r","m","a"," ","4","5"," ","y","e","a","r","s">>,
     <<"H","b"," ","1","3",".","5"," ","g","/","d","L"," ","d","r",".">>,
     <<"d","r",".","s","h","a","r","m","a"," ","4","5"," ","y","e","a","r","s">>,
     <<"D","o","c","t","o","r"," ","S","h","a","r","m","a"," ","4","5">>,
     <<"L","a","b","-","t","e","s","t"," ","5",".","0"," ","u","n","i","t","s">>
    }

ClassifierLines == {input.line : input \in ParseInputs} \cup KeywordLines

\* TestLineParser._is_likely_test_line(line)
IsLikelyTestLine ==
    /\ Idle
    /\ \E line \in ClassifierLines :
          call' = [op |-> "_is_likely_test_line", line |-> line,
                   ret |-> _is_likely_test_line(line)]
    /\ UNCHANGED <<reference_ranges, workers, request>>
\* ------------------------------------------------------------- specifications

\* a request to process_text, stage by stage
Next == ProcessText \/ ParseTests \/ NormalizeTests \/ Guardrail \/ Summary
Spec == Init /\ [][Next]_vars

\* calls of _compute_status
NextStatus == ComputeStatus
SpecStatus == Init /\ [][NextStatus]_vars

\* calls of parse_line
NextParse == ParseLine
SpecParse == Init /\ [][NextParse]_vars

\* calls of the normalizer
NextNormalize == FindCanonicalName \/ NormalizeTest \/ NormalizeMultipleTests
SpecNormalize == Init /\ [][NextNormalize]_vars

\* calls of everything that reports a confidence
NextConfidence == ParseLine \/ ComputeStatus \/ NormalizeTest \/ NormalizeMultipleTests
SpecConfidence == Init /\ [][NextConfidence]_vars

\* calls of the status classifier and of the normalizer over a catalog with
\* missing bounds
NextSparse == ComputeStatus \/ NormalizeTest \/ NormalizeMultipleTests
SpecSparse == InitSparse /\ [][NextSparse]_vars

\* requests to the batch endpoint
NextBatch == BatchSimplify
SpecBatch == Init /\ [][NextBatch]_vars

\* threads inside ConfigLoader, in any interleaving
NextLoader ==
    \E t \in Threads :
        Enter(t) \/ CheckLoaded(t) \/ LoadFile(t) \/ StoreLoaded(t) \/ ReturnLoaded(t)
SpecLoader == InitLoader /\ [][NextLoader]_vars

\* calls of normalize_test in a row on one instance
NextSequence == NormalizeInSequence
SpecSequence == Init /\ [][NextSequence]_vars

\* calls of the line classifier
NextClassify == IsLikelyTestLine
SpecClassify == Init /\ [][NextClassify]_vars
\* ------------------------------------------------------------- properties

IsRange(ref_range) ==
    /\ {"low", "high"} \subseteq ref_range.keys
    /\ ref_range.low # None
    /\ ref_range.high # None

Hundredths == 0..100

\* C1: for a reference range with low < high and a numeric value,
\* _compute_status returns 'low' if and only if value < low, 'high' if and
\* only if value > high, and 'normal' otherwise: a value on either bound is
\* 'normal'.
StatusByBounds ==
    (/\ call.op = "_compute_status"
     /\ call.value # None
     /\ IsRange(call.ref_range)
     /\ QLt(Val(call.ref_range.low), Val(call.ref_range.high)))
    => LET v == Val(call.value)
           low == Val(call.ref_range.low)
           high == Val(call.ref_range.high)
       IN  /\ ~call.ret.raised
           /\ call.ret.status \in {"low", "high", "normal"}
           /\ call.ret.status = "low" <=> QLt(v, low)
           /\ call.ret.status = "high" <=> QLt(high, v)
           /\ call.ret.status = "normal" <=> (QLe(low, v) /\ QLe(v, high))

\* a value on the lower bound of a range with low < high came out 'normal'
StatusOnLowerBound ==
    /\ call.op = "_compute_status"
    /\ call.value # None
    /\ IsRange(call.ref_range)
    /\ QLt(Val(call.ref_range.low), Val(call.ref_range.high))
    /\ QEq(Val(call.value), Val(call.ref_range.low))
    /\ call.ret.status = "normal"

\* the alias map read off the catalog: the canonical name of the last entry
\* that lists the alias
MapsTo(alias, name) ==
    \E i \in 1..Len(reference_ranges) :
        /\ reference_ranges[i].name = name
        /\ \E j \in 1..Len(reference_ranges[i].aliases) :
              Lower(reference_ranges[i].aliases[j]) = alias
        /\ \A i2 \in (i + 1)..Len(reference_ranges) :
              \A j2 \in 1..Len(reference_ranges[i2].aliases) :
                  Lower(reference_ranges[i2].aliases[j2]) # alias

CatalogAliases ==
    UNION {{Lower(reference_ranges[i].aliases[j]) : j \in 1..Len(reference_ranges[i].aliases)} :
              i \in 1..Len(reference_ranges)}

\* checks (a), (b) and (c) of the guardrail on a canonical name and the raw text
NameInText(name, raw) == Contains(raw, Lower(name))
AliasInText(name, raw) == \E alias \in CatalogAliases : MapsTo(alias, name) /\ Contains(raw, alias)
TokensInText(name, raw) ==
    LET tokens == Split(Lower(name))
    IN  IF Len(tokens) >= 2
        THEN Cardinality({k \in 1..Len(tokens) :
                             Len(tokens[k]) > 2 /\ Contains(raw, tokens[k])}) >= 2
        ELSE Len(tokens) = 1 /\ Contains(raw, tokens[1])
Supported(name, raw) ==
    NameInText(name, raw) \/ AliasInText(name, raw) \/ TokensInText(name, raw)

RawText == Lower(Join(extraction_result.tests_raw, <<" ">>))

\* C2: a normalized test stays in the emitted tests if and only if its
\* canonical name passes check (a), (b) or (c) against the lower-cased raw
\* lines joined by spaces; every name that fails all three is listed in
\* guardrail_warnings and no test of that name is left in tests.
GuardrailKeepsSupported ==
    (pc = "done" /\ result.status = "ok")
    => LET before == normalization_result.tests
           emitted == result.tests
       IN  /\ emitted = SelectSeq(before, LAMBDA t : Supported(t.name, RawText))
           /\ \A i \in 1..Len(before) :
                 ~Supported(before[i].name, RawText)
                 => /\ before[i].name \in Range(result.metadata.guardrail_warnings)
                    /\ \A k \in 1..Len(emitted) : emitted[k].name # before[i].name

\* a request that lost one test to the guardrail and kept another by its alias alone
GuardrailRemovedAndKept ==
    /\ pc = "done"
    /\ result.status = "ok"
    /\ result.metadata.guardrail_warnings # <<>>
    /\ \E k \in 1..Len(result.tests) :
          /\ ~NameInText(result.tests[k].name, RawText)
          /\ ~TokensInText(result.tests[k].name, RawText)
          /\ AliasInText(result.tests[k].name, RawText)

\* C3: a result of process_text with status 'ok' has a non-empty tests list.
OkHasTests == (pc = "done" /\ result.status = "ok") => result.tests # <<>>

ShortCircuits == {"no_tests_found", "parse_failed", "normalization_failed"}

\* no extracted line parses to a numeric value
NoneParsed == \A i \in 1..Len(extraction_result.tests_raw) :
                 parse_line(extraction_result.tests_raw[i]).value = None
\* no line that parses to a numeric value is normalized
NoneNormalized == \A i \in 1..Len(extraction_result.tests_raw) :
                     LET parsed == parse_line(extraction_result.tests_raw[i])
                     IN  parsed.value # None => normalize_test(parsed).status # "ok"

\* C4: process_text always returns a result; with no raw candidate line its
\* status is 'no_tests_found', with lines of which none parses to a numeric
\* value 'parse_failed', with parsed candidates of which none is normalized
\* 'normalization_failed'; each of these results carries an empty tests list
\* and a summary string, and no stage after the one that stopped has run.
ShortCircuitOutcomes ==
    pc = "done"
    => LET expected == IF extraction_result.tests_raw = <<>> THEN "no_tests_found"
                       ELSE IF NoneParsed THEN "parse_failed"
                       ELSE IF NoneNormalized THEN "normalization_failed"
                       ELSE "ok"
       IN  /\ result.status = expected
           /\ result.status \in ShortCircuits
              => /\ result.tests = <<>>
                 /\ "summary" \in DOMAIN result
                 /\ result.summary # ""
           /\ result.status = "no_tests_found" => ran = <<"extraction">>
           /\ result.status = "parse_failed" => ran = <<"extraction", "parser">>
           /\ result.status = "normalization_failed"
              => ran = <<"extraction", "parser", "normalizer">>

\* a request with parsed candidates of which none was normalized
NormalizationShortCircuit ==
    /\ pc = "done"
    /\ result.status = "normalization_failed"
    /\ valid_parsed_tests # <<>>
    /\ ran = <<"extraction", "parser", "normalizer">>

\* C5: normalize_test returns an 'ok' record only for a candidate with a
\* numeric value whose name resolves.
NormalizedOnlyWithValue ==
    (call.op = "normalize_test" /\ call.ret.status = "ok")
    => /\ call.parsed_test.value # None
       /\ _find_canonical_name(call.parsed_test.name) # None

QInUnit(x) == QLe(Q(0, 1), x) /\ QLe(x, Q(100, 1))

\* the confidences of a call, each within [0, 1]: for _compute_status when
\* the range is one of those given
ConfidencesBounded(ranges) ==
    /\ call.op = "parse_line" => call.ret.confidence \in Hundredths
    /\ (call.op = "_compute_status" /\ call.ref_range \in ranges /\ ~call.ret.raised)
       => call.ret.confidence \in Hundredths
    /\ call.op = "normalize_test"
       => /\ QInUnit(call.name_confidence)
          /\ call.status_confidence \in Hundredths
          /\ call.parsed_test.confidence \in Hundredths
          /\ call.ret.normalization_confidence \in Hundredths
    /\ call.op = "normalize_multiple_tests"
       => /\ call.ret.normalization_confidence \in Hundredths
          /\ \A i \in 1..Len(call.ret.tests) :
                call.ret.tests[i].normalization_confidence \in Hundredths

NumericRanges == {r \in StatusRanges : IsRange(r)}
OrderedRanges == {r \in NumericRanges : QLe(Val(r.low), Val(r.high))}

\* C6, as stated: the parse confidence, the status confidence, the name
\* confidence, the confidence of a normalized test and that of a batch lie
\* in [0, 1] for every line, every value and every range with numeric bounds.
ConfidencesInUnitInterval == ConfidencesBounded(NumericRanges)

\* C6, amended: the same for every range with numeric bounds low <= high.
ConfidencesInUnitIntervalOrdered == ConfidencesBounded(OrderedRanges)

\* a value so far above an ordered range that its confidence is the cap
StatusConfidenceAtCap ==
    /\ call.op = "_compute_status"
    /\ call.ref_range \in OrderedRanges
    /\ call.ret.status = "high"
    /\ call.ret.confidence = AbnormalCap

\* C7: _find_canonical_name returns the result of the first stage that
\* succeeds of (a) the canonical name equal to the name without case,
\* (b) the alias map at the lower-cased name, (c) the best fuzzy match among
\* the canonical names if its score is at least the threshold, (d) the
\* canonical name of the best fuzzy match among the alias keys if its score
\* is at least the threshold; the result is a catalog key, and None if no
\* stage succeeds or the name is empty or None.
CanonicalNameByStages ==
    call.op = "_find_canonical_name"
    => LET names == [i \in 1..Len(reference_ranges) |-> reference_ranges[i].name]
           clean == Lower(Strip(Val(call.test_name)))
           exact == {i \in 1..Len(names) : Lower(names[i]) = clean}
           alias == {n \in Range(names) : MapsTo(clean, n)}
           best == extractOne(clean, names)
           best_alias == extractOne(clean, DictKeys(get_all_aliases))
           accepted(match) == match # None /\ QLe(Q(fuzzy_threshold, 1), Val(match)[2])
           expected ==
               IF call.test_name = None \/ Val(call.test_name) = <<>> THEN None
               ELSE IF exact # {} THEN Some(names[CHOOSE i \in exact : \A k \in exact : i <= k])
               ELSE IF alias # {} THEN Some(CHOOSE n \in alias : TRUE)
               ELSE IF accepted(best) THEN Some(Val(best)[1])
               ELSE IF accepted(best_alias)
                    THEN Some(CHOOSE n \in Range(names) : MapsTo(Val(best_alias)[1], n))
               ELSE None
       IN  /\ call.ret = expected
           /\ call.ret # None => Val(call.ret) \in Range(names)

\* a name only the last stage resolves
ResolvedByFuzzyAlias ==
    /\ call.op = "_find_canonical_name"
    /\ call.test_name # None
    /\ call.ret # None
    /\ LET clean == Lower(Strip(Val(call.test_name)))
       IN  /\ ExactStage(clean) = None
           /\ AliasStage(clean) = None
           /\ FuzzyStage(clean) = None

IsNumber(s) == Float(s) # None

\* C8: for a line 'name value unit (Status)' that the classifier accepts,
\* parse_line returns the name text, the number, the unit text as written and
\* the lower-cased status word, or status None when the line has no status
\* word; the confidence is greater than 0.5.
ShapedLineFields ==
    (/\ call.op = "parse_line"
     /\ call.parts # <<>>
     /\ IsNumber(call.parts[2])
     /\ _is_likely_test_line(Strip(call.line)))
    => /\ call.ret.name = Some(call.parts[1])
       /\ call.ret.value # None
       /\ QEq(Val(call.ret.value), Val(Float(call.parts[2])))
       /\ call.ret.unit = Some(call.parts[3])
       /\ call.ret.status = IF call.parts[4] = None THEN None
                            ELSE Some(Lower(Val(call.parts[4])))
       /\ call.ret.confidence > 50

\* C9: parse_line tries Standard, WithReference and Colon in this order and
\* returns the candidate of the first that yields a numeric value, a grammar
\* that fails being followed by the next; a line the classifier rejects or no
\* grammar matches gives the candidate with no name, value, unit and status,
\* confidence 0.0 and the stripped line as raw_line.
GrammarOrder ==
    call.op = "parse_line"
    => LET line == Strip(call.line)
           standard == _try_parse_standard_format(line)
           reference == _try_parse_with_reference(line)
           colon == _try_parse_colon_format(line)
           null == [name |-> None, value |-> None, unit |-> None, status |-> None,
                    raw_line |-> line, confidence |-> 0]
       IN  IF ~_is_likely_test_line(line) THEN call.ret = null /\ call.tried = <<>>
           ELSE IF standard # None
                THEN call.ret = Val(standard) /\ call.tried = <<"standard">>
           ELSE IF reference # None
                THEN call.ret = Val(reference) /\ call.tried = <<"standard", "reference">>
           ELSE /\ call.tried = <<"standard", "reference", "colon">>
                /\ call.ret = IF colon # None THEN Val(colon) ELSE null

\* a line whose value token under Standard is no valid float, parsed by no grammar
InvalidFloatFallsThrough ==
    /\ call.op = "parse_line"
    /\ Search(StandardPattern, ReplaceCommas(Strip(call.line)), 4).ok
    /\ _try_parse_standard_format(Strip(call.line)) = None
    /\ call.tried = <<"standard", "reference", "colon">>
    /\ call.ret.value = None

\* digits in groups of three after the first, separated by commas
HasThousandsSeparator(s) ==
    /\ "," \in Range(s)
    /\ \A i \in 1..Len(s) : s[i] \in Digits \cup {","}
    /\ s[1] # ","
    /\ \A i \in 1..Len(s) :
          s[i] = "," => /\ i + 3 <= Len(s)
                        /\ \A k \in 1..3 : s[i + k] \in Digits
                        /\ (i + 4 <= Len(s) => s[i + 4] = ",")

\* C10: a value written with a comma as thousands separator is parsed as the
\* full number, never as the digits before the comma.
ThousandsSeparatorStripped ==
    (/\ call.op = "parse_line"
     /\ call.parts # <<>>
     /\ HasThousandsSeparator(call.parts[2])
     /\ _is_likely_test_line(Strip(call.line)))
    => /\ call.ret.value # None
       /\ QEq(Val(call.ret.value), Val(Float(Remove(call.parts[2], ","))))


\* C11: for a line of the shape name value low-high unit, parse_line returns
\* the value before the range as value and the unit text alone as unit; the
\* reference range is in neither, whether it is written with integers or
\* with decimals.
RangeDiscarded ==
    (call.op = "parse_line" /\ call.range # <<>>)
    => /\ call.ret.value # None
       /\ QEq(Val(call.ret.value), Val(Float(call.range[2])))
       /\ call.ret.unit = Some(call.range[4])


\* the catalog entry of a canonical name
CatalogEntry(name) == Val(get_test_by_name(name))

\* C12: for a numeric value and a reference range that lacks its low or its
\* high bound, _compute_status returns no status (None, the status 'unknown')
\* with confidence 0; the status of a test normalize_test emits is 'low',
\* 'high' or 'normal' only when both bounds of its catalog range are known,
\* and is None otherwise.
StatusUnknownWithoutBounds ==
    /\ (/\ call.op = "_compute_status"
        /\ call.value # None
        /\ (RangeGet(call.ref_range, "low") = None \/ RangeGet(call.ref_range, "high") = None))
       => call.ret = [raised |-> FALSE, status |-> PyNone, confidence |-> 0]
    /\ (call.op = "normalize_test" /\ call.ret.status = "ok")
       => LET ref_range == CatalogEntry(call.ret.name).reference_range
          IN  /\ call.ret.test_status \in {"low", "high", "normal", PyNone}
              /\ call.ret.test_status # PyNone => IsRange(ref_range)
              /\ ~IsRange(ref_range) => call.ret.test_status = PyNone

\* a test with a numeric value was emitted without a status, its catalog
\* range having no high bound
EmittedWithoutStatus ==
    /\ call.op = "normalize_test"
    /\ call.ret.status = "ok"
    /\ call.parsed_test.value # None
    /\ ~IsRange(CatalogEntry(call.ret.name).reference_range)
    /\ call.ret.test_status = PyNone
    /\ call.status_confidence = 0


\* v lies inside [low, high]
InsideRange(v, ref_range) ==
    QLe(Val(ref_range.low), v) /\ QLe(v, Val(ref_range.high))
\* the distance of v to the nearer bound
NearerDistance(v, ref_range) ==
    QMin(QAbs(QSub(v, Val(ref_range.low))), QAbs(QSub(Val(ref_range.high), v)))
\* _compute_status was asked for a value inside a range with low < high
StatusInsideRange ==
    /\ call.op = "_compute_status"
    /\ call.value # None
    /\ IsRange(call.ref_range)
    /\ QLt(Val(call.ref_range.low), Val(call.ref_range.high))
    /\ InsideRange(Val(call.value), call.ref_range)
\* the values inside the range of the call that are strictly closer to their
\* nearer bound than the value of the call is to its
CloserValues ==
    {value2 \in StatusValues \ {None} :
        /\ InsideRange(Val(value2), call.ref_range)
        /\ QLt(NearerDistance(Val(value2), call.ref_range),
               NearerDistance(Val(call.value), call.ref_range))}

\* C13, as stated: for a range with low < high and two values inside it, the
\* confidence _compute_status returns for the value strictly closer to its
\* nearer bound is strictly less than the confidence for the other.
ConfidenceStrictlyDecreasing ==
    StatusInsideRange
    => \A value2 \in CloserValues :
          _compute_status(value2, call.ref_range).confidence < call.ret.confidence

\* C13, amended: the confidence for the value strictly closer to its nearer
\* bound is never greater than the confidence for the other; the two are
\* equal when they round to the same hundredth.
ConfidenceNotIncreasing ==
    StatusInsideRange
    => \A value2 \in CloserValues :
          _compute_status(value2, call.ref_range).confidence <= call.ret.confidence

\* a value inside the range has both a closer value of strictly smaller
\* confidence and a closer value of the same confidence
ConfidenceDropsAndTies ==
    /\ StatusInsideRange
    /\ \E value2 \in CloserValues :
          _compute_status(value2, call.ref_range).confidence < call.ret.confidence
    /\ \E value2 \in CloserValues :
          _compute_status(value2, call.ref_range).confidence = call.ret.confidence


RECURSIVE SumOf(_)
\* the sum of the normalization_confidence of the tests, in hundredths
SumOf(tests) ==
    IF tests = <<>> THEN 0
    ELSE tests[1].normalization_confidence + SumOf(SubSeq(tests, 2, Len(tests)))

\* what normalize_multiple_tests returns for no candidates
EmptyBatchResult ==
    [status |-> "failed", tests |-> <<>>, failed_tests |-> <<>>,
     normalization_confidence |-> 0, total_tests |-> 0, successful_tests |-> 0,
     failed_count |-> 0]

\* C14, as stated: the batch normalization_confidence is the arithmetic mean
\* of normalization_confidence over the entries of tests, and 0.0 for no
\* entries; for an empty list the call returns the empty result.
BatchConfidenceIsMean ==
    call.op = "normalize_multiple_tests"
    => /\ call.ret.tests = <<>> => call.ret.normalization_confidence = 0
       /\ call.ret.tests # <<>>
          => call.ret.normalization_confidence * Len(call.ret.tests) = SumOf(call.ret.tests)
       /\ call.parsed_tests = <<>> => call.ret = EmptyBatchResult

\* C14, amended: the batch normalization_confidence is the arithmetic mean
\* rounded to the hundredth, so within half a hundredth of the mean.
BatchConfidenceIsRoundedMean ==
    call.op = "normalize_multiple_tests"
    => LET n == Len(call.ret.tests)
           diff == call.ret.normalization_confidence * n - SumOf(call.ret.tests)
       IN  /\ n = 0 => call.ret.normalization_confidence = 0
           /\ n # 0 => (2 * diff <= n /\ -(2 * diff) <= n)
           /\ call.parsed_tests = <<>> => call.ret = EmptyBatchResult

\* a batch with a failed candidate and a normalized one reported the
\* confidence of the normalized one
BatchMeanOverNormalized ==
    /\ call.op = "normalize_multiple_tests"
    /\ call.ret.failed_count > 0
    /\ call.ret.successful_tests > 0
    /\ call.ret.normalization_confidence > 0
    /\ call.ret.normalization_confidence * Len(call.ret.tests) = SumOf(call.ret.tests)


\* the candidates without the one at index i
Without(parsed_tests, i) ==
    SubSeq(parsed_tests, 1, i - 1) \o SubSeq(parsed_tests, i + 1, Len(parsed_tests))
\* the failed_tests entry of a candidate that normalize_test did not normalize
FailedEntry(parsed_test) ==
    [raw_line |-> parsed_test.raw_line,
     reason |-> normalize_test(parsed_test).reason,
     confidence |-> 0]
\* the indices of the candidates normalize_test normalizes, and of the others
OkIndices(parsed_tests) ==
    {i \in 1..Len(parsed_tests) : normalize_test(parsed_tests[i]).status = "ok"}
FailedIndices(parsed_tests) == (1..Len(parsed_tests)) \ OkIndices(parsed_tests)
\* how many indices of S are at most i
RankIn(S, i) == Cardinality({k \in S : k <= i})

\* C15: normalize_multiple_tests returns for every list of candidates; each
\* candidate has exactly one entry, in tests or in failed_tests, in the order
\* of the candidates (successful_tests + failed_count = total_tests); a
\* candidate that fails has a failed_tests entry with its raw_line, a reason
\* and confidence 0; and without a failing candidate the entries of the
\* others are the same.
FailureIsolation ==
    call.op = "normalize_multiple_tests"
    => LET parsed_tests == call.parsed_tests
           ok == OkIndices(parsed_tests)
           failed == FailedIndices(parsed_tests)
       IN  /\ call.ret.total_tests = Len(parsed_tests)
           /\ call.ret.successful_tests = Len(call.ret.tests)
           /\ call.ret.failed_count = Len(call.ret.failed_tests)
           /\ call.ret.successful_tests + call.ret.failed_count = call.ret.total_tests
           /\ Len(call.ret.tests) = Cardinality(ok)
           /\ \A i \in ok : call.ret.tests[RankIn(ok, i)] = normalize_test(parsed_tests[i])
           /\ \A i \in failed :
                 /\ call.ret.failed_tests[RankIn(failed, i)] = FailedEntry(parsed_tests[i])
                 /\ FailedEntry(parsed_tests[i]).reason # <<>>
                 /\ normalize_multiple_tests(Without(parsed_tests, i)).tests = call.ret.tests

\* a batch in which one candidate failed by an exception inside normalize_test
\* and another, after it, was normalized
ExceptionIsolated ==
    /\ call.op = "normalize_multiple_tests"
    /\ Len(call.parsed_tests) = 2
    /\ normalize_test(call.parsed_tests[1]).status = "error"
    /\ call.ret.failed_count = 1
    /\ call.ret.successful_tests = 1
    /\ call.ret.tests[1] = normalize_test(call.parsed_tests[2])


\* the outcome of a batch: every candidate normalized, some of them, or none
BatchOutcome(parsed_tests) ==
    IF OkIndices(parsed_tests) = {} THEN "failed"
    ELSE IF FailedIndices(parsed_tests) = {} THEN "full"
    ELSE "partial"

\* C16: batches with different outcomes (every candidate normalized, some
\* normalized and some failed, none normalized) carry different status
\* values, and a batch with some failures still returns every test that was
\* normalized.
StatusTellsOutcome ==
    call.op = "normalize_multiple_tests"
    => /\ \A other \in BatchInputs :
             BatchOutcome(other) # BatchOutcome(call.parsed_tests)
             => normalize_multiple_tests(other).status # call.ret.status
       /\ BatchOutcome(call.parsed_tests) = "partial"
          => Len(call.ret.tests) = Cardinality(OkIndices(call.parsed_tests))


\* the normalization confidence a result of process_text carries, at the top
\* or in its metadata: Some(hundredths), or None when it carries none
NormalizationConfidenceOf(res) ==
    IF "normalization_confidence" \in DOMAIN res THEN Some(res.normalization_confidence)
    ELSE IF "metadata" \in DOMAIN res /\ "normalization_confidence" \in DOMAIN res.metadata
         THEN Some(res.metadata.normalization_confidence)
    ELSE None

\* C17: every result of process_text carries a numeric normalization
\* confidence, and it is 0 in every outcome other than 'ok'.
ResultCarriesConfidence ==
    pc = "done"
    => /\ NormalizationConfidenceOf(result) # None
       /\ Val(NormalizationConfidenceOf(result)) \in Hundredths
       /\ result.status # "ok" => Val(NormalizationConfidenceOf(result)) = 0


TestFields ==
    {"name", "value", "unit", "status", "ref_range", "category",
     "normalization_confidence", "parse_confidence"}

\* a test of a result exposes every field of a normalized test
ExposesAll(test) ==
    /\ TestFields \subseteq DOMAIN test
    /\ get_test_by_name(test.name) # None
    /\ test.value # None
    /\ test.unit = CatalogEntry(test.name).unit
    /\ test.status \in {"low", "high", "normal"}
    /\ {"low", "high"} \subseteq DOMAIN test.ref_range
    /\ test.ref_range.low # None
    /\ test.ref_range.high # None
    /\ test.category = CatalogEntry(test.name).category
    /\ test.normalization_confidence \in Hundredths
    /\ test.parse_confidence \in Hundredths

ClinicalStatus(v, ref_range) ==
    IF QLt(v, Val(ref_range.low)) THEN "low"
    ELSE IF QLt(Val(ref_range.high), v) THEN "high"
    ELSE "normal"

\* C19: for a candidate whose name resolves to a canonical name and whose
\* value is numeric, normalize_test returns a record with that canonical
\* name, the value of the candidate, and a status field that is 'low' for a
\* value below the catalog's low bound, 'high' for one above its high bound
\* and 'normal' for one inside.
StatusFieldIsClinical ==
    (/\ call.op = "normalize_test"
     /\ call.parsed_test.value # None
     /\ _find_canonical_name(call.parsed_test.name) # None)
    => LET name == Val(_find_canonical_name(call.parsed_test.name))
       IN  /\ call.ret.name = name
           /\ call.ret.value = call.parsed_test.value
           /\ call.ret.status = ClinicalStatus(Val(call.parsed_test.value),
                                               CatalogEntry(name).reference_range)


\* a result without its stamp
Unstamped(entry) == [f \in (DOMAIN entry) \ {"batch_index"} |-> entry[f]]

\* C20: for a batch of n reports, 1 <= n <= 100, batch_simplify returns
\* exactly n results; the result of position i carries batch_index i (counted
\* from 0) and is the outcome of process_text on the report of position i; a
\* report that fails gives an error entry at its own index, and the reports
\* after it are processed in their places.
BatchMirrorsInputOrder ==
    (/\ call.op = "batch_simplify"
     /\ Len(call.reports) >= 1
     /\ Len(call.reports) <= 100)
    => /\ call.ret.status = "ok"
       /\ call.ret.total_reports = Len(call.reports)
       /\ Len(call.ret.results) = Len(call.reports)
       /\ \A i \in 1..Len(call.reports) :
             /\ call.ret.results[i].batch_index = i - 1
             /\ Unstamped(call.ret.results[i]) = process_text(call.reports[i])
             /\ call.reports[i].type # "str" => call.ret.results[i].status = "error"

\* a batch of three whose first report fails, followed by one that gives no
\* test and one that succeeds
FailedReportInPlace ==
    /\ call.op = "batch_simplify"
    /\ Len(call.reports) = 3
    /\ call.reports[1].type # "str"
    /\ call.ret.results[1].status = "error"
    /\ call.ret.results[2].status = "no_tests_found"
    /\ call.ret.results[3].status = "ok"
    /\ call.ret.results[3].batch_index = 2


\* once loaded, the catalog keeps its content
LoadedStays == reference_ranges # None => reference_ranges' = reference_ranges

\* a call that returned was handed the whole catalog of the file, and answered
\* from it
ReturnsWholeCatalog ==
    \A t \in Threads :
        workers[t].ret.op # "none" =>
            /\ workers[t].ranges = ReferenceCatalog
            /\ workers[t].ret.op = "get_reference_ranges" =>
                  workers[t].ret.value = ReferenceCatalog
            /\ workers[t].ret.op = "get_supported_tests" =>
                  /\ workers[t].ret.value.total_tests = Len(ReferenceCatalog)
                  /\ \A i \in 1..Len(ReferenceCatalog) :
                        workers[t].ret.value.tests[i].name = ReferenceCatalog[i].name

\* C21: under every interleaving of the threads inside ConfigLoader, the
\* catalog, once loaded, never changes its content; every call that returns
\* was handed the whole catalog of the file, never a missing or a partly
\* loaded one; and no method writes to it.
CatalogLoadedAndNeverMutated == [][LoadedStays]_vars /\ []ReturnsWholeCatalog

\* two threads both found the catalog missing and both loaded the file: the
\* call of one has returned, the other is about to store its own load
BothThreadsLoaded ==
    /\ reference_ranges = ReferenceCatalog
    /\ \E t1, t2 \in Threads :
          /\ workers[t1].ret.op = "get_reference_ranges"
          /\ workers[t2].pc = "store"
          /\ workers[t2].loaded # None


Indicator(signal) == IF signal THEN 1 ELSE 0

\* the unit holds one of the recognized units, in any case of the letters
UnitRecognized(unit) ==
    \E u \in 1..Len(valid_units) : Contains(Lower(unit), Lower(valid_units[u]))

\* the parse confidence the signals of a candidate with a value add up to, in
\* hundredths
SignalsConfidence(test) ==
    50 + 20 * Indicator(MatchesAnyKnownPattern(Lower(Val(test.name))))
       + 15 * Indicator(UnitRecognized(Val(test.unit)))
       + 10 * Indicator(QLt(Q(0, 1), Val(test.value)) /\ QLt(Val(test.value), Q(100000, 1)))
       + 5 * Indicator(test.status # None)

\* C23: the parse confidence of a candidate with a numeric value is min(1.0,
\* 0.5 + 0.2 for a name that matches a known-test pattern + 0.15 for a unit that
\* holds a recognized unit + 0.1 for 0 < value < 100000 + 0.05 for a captured
\* status word), so it lies in [0.5, 1.0] and the values 0 and 100000 earn no
\* bonus; a candidate with no value has confidence 0.0.
ParseConfidenceBySignals ==
    call.op = "parse_line"
    => IF call.ret.value = None
       THEN call.ret.confidence = 0
       ELSE /\ call.ret.confidence =
                  (IF SignalsConfidence(call.ret) > 100 THEN 100
                   ELSE SignalsConfidence(call.ret))
            /\ call.ret.confidence >= 50
            /\ call.ret.confidence <= 100

\* a candidate with the value 0, a known name and a status word, and so with
\* every bonus but that of the value
ZeroValueWithoutBonus ==
    /\ call.op = "parse_line"
    /\ call.ret.value = Some(Q(0, 1))
    /\ call.ret.status # None
    /\ call.ret.confidence = 90


\* the name-resolution confidence of a parsed name resolved to a canonical
\* name, a rational in hundredths: 1.0 for the same name in any case, 0.95 for
\* an alias of it, else the token-set similarity of the two, at most 1.0
NameResolutionConfidence(parsed_name, canonical) ==
    IF Lower(parsed_name) = Lower(canonical) THEN Q(100, 1)
    ELSE IF Lower(parsed_name) \in CatalogAliases /\ MapsTo(Lower(parsed_name), canonical)
    THEN Q(95, 1)
    ELSE QMin(token_set_ratio(Lower(parsed_name), Lower(canonical)), Q(100, 1))

\* three times the mean of the three confidences of an 'ok' record, a
\* rational in hundredths
ThreeConfidences(parsed_test, normalized_test) ==
    LET nc == NameResolutionConfidence(Val(parsed_test.name), normalized_test.name)
        sc == _compute_status(parsed_test.value,
                              CatalogEntry(normalized_test.name).reference_range).confidence
    IN  Q(nc.n + (parsed_test.confidence + sc) * nc.d, nc.d)

\* C24, as stated: the normalization_confidence of an 'ok' record is the
\* unweighted mean of the name-resolution confidence, the parse confidence
\* and the status confidence.
ConfidenceIsMeanOfThree ==
    (call.op = "normalize_test" /\ call.ret.status = "ok")
    => QEq(Q(3 * call.ret.normalization_confidence, 1),
           ThreeConfidences(call.parsed_test, call.ret))

\* C24, amended: the normalization_confidence of an 'ok' record is that mean
\* rounded to the hundredth, so within half a hundredth of the mean.
ConfidenceIsRoundedMeanOfThree ==
    (call.op = "normalize_test" /\ call.ret.status = "ok")
    => LET diff == QSub(Q(3 * call.ret.normalization_confidence, 1),
                        ThreeConfidences(call.parsed_test, call.ret))
       IN  QLe(QAbs(diff), Q(3, 2))

\* a name found in the alias map, normalized with a confidence that is not
\* the exact mean
AliasMeanRounded ==
    /\ call.op = "normalize_test"
    /\ call.ret.status = "ok"
    /\ call.name_confidence = Q(95, 1)
    /\ ~QEq(Q(3 * call.ret.normalization_confidence, 1),
            ThreeConfidences(call.parsed_test, call.ret))


\* kw stands in s as a whole word: no letter, digit or underscore next to it
WholeWord(kw, s) ==
    \E i \in 1..(Len(s) - Len(kw) + 1) :
        /\ At(kw, s, i)
        /\ (i = 1 \/ s[i - 1] \notin WordChars)
        /\ (i + Len(kw) > Len(s) \/ s[i + Len(kw)] \notin WordChars)

\* the three grounds on which the classifier rejects a line
Rejected(line) ==
    \/ Len(Strip(Lower(line))) < 5
    \/ Len(Strip(Lower(line))) > 200
    \/ (line # <<>> /\ 10 * CountIn(line, Digits) > 6 * Len(line))
    \/ \E k \in 1..Len(non_test_keywords) : WholeWord(non_test_keywords[k], Strip(Lower(line)))

\* one of the three signals of a test line holds
Signalled(line) ==
    \/ MatchesAnyKnownPattern(Strip(Lower(line)))
    \/ UnitRecognized(Strip(Lower(line)))
    \/ Search(ShapePattern, line, 0).ok

\* C25: the classifier rejects every line whose stripped length is under 5 or
\* over 200, whose share of digits is over 0.6 or that holds a keyword of the
\* denylist as a whole word, whatever signals the line has; a line that is not
\* rejected is accepted exactly when it has a known test name, a recognized
\* unit or letters followed by blanks and a number.
ClassifierDecision ==
    call.op = "_is_likely_test_line"
    => call.ret = (~Rejected(call.line) /\ Signalled(call.line))


\* C26: in an 'ok' result of process_text the normalization_confidence of the
\* metadata is the arithmetic mean, to the hundredth, of normalization_confidence
\* over the tests of the result, also when the guardrail removed tests.
MetadataConfidenceOverEmitted ==
    (pc = "done" /\ result.status = "ok" /\ result.tests # <<>>)
    => LET n == Len(result.tests)
           diff == result.metadata.normalization_confidence * n - SumOf(result.tests)
       IN  2 * diff <= n /\ -(2 * diff) <= n


\* the parsed candidates normalize_test normalizes, in their order
NormalizedCandidates(parsed_tests) ==
    SelectSeq(parsed_tests, LAMBDA t : normalize_test(t).status = "ok")

\* the guardrail flags the test of a candidate when it sees the raw line of
\* the candidate alone
FlaggedAlone(parsed_test) ==
    guardrail_check(<<parsed_test.raw_line>>,
                    <<normalize_test(parsed_test)>>).hallucinated_tests # <<>>

\* C27: whether the guardrail flags a normalized test depends only on the raw
\* line the test was parsed from: it is flagged among the lines of the batch
\* exactly when it is flagged with its own line alone, so the other lines
\* neither supply nor complete the evidence for its name.
GuardrailByOwnLine ==
    guardrail_result # None
    => \A k \in 1..Len(NormalizedCandidates(valid_parsed_tests)) :
          (normalize_test(NormalizedCandidates(valid_parsed_tests)[k]).name
              \in Range(guardrail_result.hallucinated_tests))
          <=> FlaggedAlone(NormalizedCandidates(valid_parsed_tests)[k])


OnlyFuzzy(parsed_test) ==
    /\ parsed_test.name # None
    /\ ExactStage(Lower(Strip(Val(parsed_test.name)))) = None
    /\ AliasStage(Lower(Strip(Val(parsed_test.name)))) = None

\* C29: when a name is resolved by a fuzzy stage of _find_canonical_name only,
\* the name-resolution confidence that enters the overall confidence of the
\* test is at least the threshold over 100 (0.80).
FuzzyNameConfidenceAboveThreshold ==
    (call.op = "normalize_test" /\ call.ret.status = "ok" /\ OnlyFuzzy(call.parsed_test))
    => QLe(Q(80, 1), call.name_confidence)


\* the raw lines of the failure entries of an 'ok' result
FailedLines ==
    {result.metadata.failed_tests[i].raw_line :
        i \in 1..Len(result.metadata.failed_tests)}

\* C30: in an 'ok' result of process_text every raw candidate line is accounted
\* for: a line no grammar reads a value from has an entry in failed_tests, and
\* total_tests_extracted = total_tests_normalized + number of failed_tests +
\* number of guardrail_warnings.
EveryCandidateLineAccounted ==
    (pc = "done" /\ result.status = "ok")
    => /\ \A i \in 1..Len(extraction_result.tests_raw) :
              parse_line(extraction_result.tests_raw[i]).value = None
              => Strip(extraction_result.tests_raw[i]) \in FailedLines
       /\ result.metadata.total_tests_extracted
              = result.metadata.total_tests_normalized
                + Len(result.metadata.failed_tests)
                + Len(result.metadata.guardrail_warnings)

====
